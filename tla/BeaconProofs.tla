---------------------------- MODULE BeaconProofs ----------------------------
(***************************************************************************)
(* Proofs about Beacon, for any configurations, any length of the line and *)
(* any number of answers and changes: the backend implements what          *)
(* BeaconPromise says of it, and no measurement reaches the autopilot with *)
(* other anchors.                                                          *)
(*                                                                         *)
(* A token is an end frame on the line or the OK that answers one.  The    *)
(* numbers of the tokens repeat, so the argument is about how many frames  *)
(* can be written while a token is under way.                              *)
(***************************************************************************)
EXTENDS Beacon, SequenceTheorems, TLAPS

Kinds == {"hello", "anchors", "end", "position", "tdoa"}
Data == {"position", "tdoa"}
Frames == [kind : Kinds, config : Contents, seq : 0 .. SeqMod - 1]
Answers == [ok : BOOLEAN, seq : 0 .. SeqMod - 1, config : Contents]
Pcs == {"idle", "reading", "timing", "locking", "hello", "anchors", "end", "noting"}
Sending == {"hello", "anchors", "end"}

-----------------------------------------------------------------------------
(* The parts of the invariant, as properties of the line d, the answers u  *)
(* that wait, the number s of the next frame and the autopilot's state.    *)

NoEnd(d) == \A i \in 1 .. Len(d) : d[i].kind # "end"
NoOk(u) == \A j \in 1 .. Len(u) : ~u[j].ok

\* Number s comes n frames after number a.
Ahead(a, n, s) == a + n = s \/ a + n = s + SeqMod

\* The frames behind an end frame are the ones that were written after it.
Numbered(d, s) ==
    \A i \in 1 .. Len(d) : d[i].kind = "end" => Ahead(d[i].seq, Len(d) - i + 1, s)

\* At most b frames were written since the ends of the OKs behind the first ones went out.
Recent(u, first, s, b) ==
    \A j \in 1 .. Len(u) :
       j > first /\ u[j].ok => \E n \in 1 .. b : Ahead(u[j].seq, n, s)

\* The frames from a to b do not touch what the autopilot is being given.
OnlyData(d, a, b) == \A k \in a .. b : d[k].kind \in Data

\* What comes at index a of the line finds the autopilot at the start of a configuration.
Begins(d, a, staged) ==
    \/ \E h \in 1 .. a - 1 : d[h].kind = "hello" /\ OnlyData(d, h + 1, a - 1)
    \/ OnlyData(d, 1, a - 1) /\ staged \in {Started, Nothing}

\* An end at index i of the line finds it with the anchors c, if with any.
Given(d, i, c, staged) ==
    \/ \E a \in 1 .. i - 1 : /\ d[a].kind = "anchors" /\ d[a].config = c
                             /\ OnlyData(d, a + 1, i - 1)
                             /\ Begins(d, a, staged)
    \/ OnlyData(d, 1, i - 1) /\ staged \in {c, Nothing}

GivenAll(d, staged) ==
    \A i \in 1 .. Len(d) : d[i].kind = "end" => Given(d, i, d[i].config, staged)

\* The token numbered e, if there is one, is the last one and is about the anchors c.
Last(d, u, e, c, cfg) ==
    /\ \A i \in 1 .. Len(d) :
          d[i].kind = "end" /\ d[i].seq = e =>
             d[i].config = c /\ \A k \in i + 1 .. Len(d) : d[k].kind # "end"
    /\ \A j \in 1 .. Len(u) :
          u[j].ok /\ u[j].seq = e =>
             /\ u[j].config = c /\ cfg \in {c, None} /\ NoEnd(d)
             /\ \A k \in j + 1 .. Len(u) : ~u[k].ok

\* No token is under way, and the autopilot has the anchors c or none.
Settled(d, u, c, cfg) == NoEnd(d) /\ NoOk(u) /\ cfg \in {c, None}

\* A measurement comes before the ends on the line, and finds its anchors or none.
Measured(d, cfg) ==
    \A i \in 1 .. Len(d) :
       d[i].kind = "tdoa" => /\ cfg \in {d[i].config, None}
                             /\ \A k \in 1 .. i - 1 : d[k].kind # "end"

-----------------------------------------------------------------------------
(* The numbers.                                                            *)

LEMMA NextNumber ==
  ASSUME NEW s \in 0 .. SeqMod - 1
  PROVE  (s + 1) % SeqMod = IF s + 1 = SeqMod THEN 0 ELSE s + 1
BY BeaconAssumption

LEMMA NumberType ==
  ASSUME NEW s \in 0 .. SeqMod - 1
  PROVE  (s + 1) % SeqMod \in 0 .. SeqMod - 1
BY NextNumber, BeaconAssumption

\* One more frame.
LEMMA OneAhead ==
  ASSUME NEW s \in 0 .. SeqMod - 1, NEW a \in 0 .. SeqMod - 1, NEW n \in 0 .. SeqMod - 1,
         Ahead(a, n, s)
  PROVE  Ahead(a, n + 1, (s + 1) % SeqMod)
<1>1. SeqMod \in Nat
  BY BeaconAssumption
<1> DEFINE t == (s + 1) % SeqMod
<1>2. t = IF s + 1 = SeqMod THEN 0 ELSE s + 1
  BY NextNumber
<1> HIDE DEF t
<1>3. Ahead(a, n + 1, t)
  BY <1>1, <1>2 DEF Ahead
<1> QED BY <1>3 DEF t

LEMMA NotAhead ==
  ASSUME NEW s \in 0 .. SeqMod - 1, NEW a \in 0 .. SeqMod - 1, NEW n \in 1 .. SeqMod - 1,
         Ahead(a, n, s)
  PROVE  a # s
BY BeaconAssumption DEF Ahead

-----------------------------------------------------------------------------
(* One frame more on the line, which is not longer than its capacity.      *)

LEMMA Appended ==
  ASSUME NEW S, NEW d \in Seq(S), NEW f \in S
  PROVE  LET e == Append(d, f)
         IN  /\ e \in Seq(S) /\ Len(d) \in Nat /\ Len(e) = Len(d) + 1
             /\ e[Len(d) + 1] = f
             /\ \A i \in 1 .. Len(d) : e[i] = d[i]
BY AppendProperties, LenProperties

LEMMA NumberedAppended ==
  ASSUME NEW d \in Seq(Frames), NEW f \in Frames, NEW s \in 0 .. SeqMod - 1,
         Numbered(d, s), f.kind = "end" => f.seq = s, Len(d) < Capacity
  PROVE  Numbered(Append(d, f), (s + 1) % SeqMod)
<1> DEFINE e == Append(d, f)
<1>1. /\ e \in Seq(Frames) /\ Len(d) \in Nat /\ Len(e) = Len(d) + 1
      /\ e[Len(d) + 1] = f
      /\ \A i \in 1 .. Len(d) : e[i] = d[i]
  BY Appended
<1> HIDE DEF e
<1>2. SUFFICES ASSUME NEW i \in 1 .. Len(e), e[i].kind = "end"
               PROVE  Ahead(e[i].seq, Len(e) - i + 1, (s + 1) % SeqMod)
  BY DEF Numbered, e
<1>3. Capacity \in Nat /\ SeqMod \in Nat /\ Capacity + 3 < SeqMod
  BY BeaconAssumption, SeqAssumption
<1>4. CASE i = Len(d) + 1
  <2>1. e[i].seq = s /\ Len(e) - i + 1 = 1
    BY <1>1, <1>2, <1>4
  <2>2. Ahead(s, 0, s)
    BY DEF Ahead
  <2>3. Ahead(s, 0 + 1, (s + 1) % SeqMod)
    BY <1>3, <2>2, OneAhead
  <2> QED BY <2>1, <2>3
<1>5. CASE i \in 1 .. Len(d)
  <2> DEFINE n == Len(d) - i + 1
  <2>1. e[i] = d[i] /\ d[i] \in Frames
    BY <1>1, <1>5
  <2>2. Ahead(d[i].seq, n, s) /\ d[i].seq \in 0 .. SeqMod - 1
    BY <1>2, <1>5, <2>1 DEF Numbered, Frames
  <2>3. n \in 0 .. SeqMod - 1 /\ Len(e) - i + 1 = n + 1
    BY <1>1, <1>3, <1>5
  <2> HIDE DEF n
  <2> QED BY <2>1, <2>2, <2>3, OneAhead
<1> QED BY <1>1, <1>4, <1>5

LEMMA RecentAppended ==
  ASSUME NEW u \in Seq(Answers), NEW first, NEW s \in 0 .. SeqMod - 1,
         NEW b \in 0 .. SeqMod - 1, Recent(u, first, s, b)
  PROVE  Recent(u, first, (s + 1) % SeqMod, b + 1)
<1> SUFFICES ASSUME NEW j \in 1 .. Len(u), j > first, u[j].ok
             PROVE  \E n \in 1 .. b + 1 : Ahead(u[j].seq, n, (s + 1) % SeqMod)
  BY DEF Recent
<1>1. PICK n \in 1 .. b : Ahead(u[j].seq, n, s)
  BY DEF Recent
<1>2. u[j].seq \in 0 .. SeqMod - 1 /\ n \in 0 .. SeqMod - 1
  <2>1. u[j] \in Answers
    OBVIOUS
  <2>2. SeqMod \in Nat
    BY BeaconAssumption
  <2> QED BY <2>1, <2>2 DEF Answers
<1>3. Ahead(u[j].seq, n + 1, (s + 1) % SeqMod)
  BY <1>1, <1>2, OneAhead
<1> QED BY <1>3

\* What is before an index of the line stays as it is.
LEMMA GivenAppended ==
  ASSUME NEW d \in Seq(Frames), NEW f \in Frames, NEW staged, NEW c,
         NEW i \in 1 .. Len(d) + 1
  PROVE  /\ Begins(d, i, staged) => Begins(Append(d, f), i, staged)
         /\ Given(d, i, c, staged) => Given(Append(d, f), i, c, staged)
<1> DEFINE e == Append(d, f)
<1>1. /\ e \in Seq(Frames) /\ Len(d) \in Nat /\ Len(e) = Len(d) + 1
      /\ e[Len(d) + 1] = f
      /\ \A k \in 1 .. Len(d) : e[k] = d[k]
  BY Appended
<1> HIDE DEF e
<1>2. ASSUME NEW a \in 1 .. Len(d) + 1, NEW b \in 0 .. Len(d), OnlyData(d, a, b)
      PROVE  OnlyData(e, a, b)
  <2>1. \A k \in a .. b : k \in 1 .. Len(d) /\ d[k].kind \in Data
    BY <1>1, <1>2 DEF OnlyData
  <2>2. \A k \in a .. b : e[k] = d[k]
    BY <1>1, <2>1
  <2> QED BY <2>1, <2>2 DEF OnlyData
<1>3. ASSUME NEW a \in 1 .. Len(d) + 1, Begins(d, a, staged)
      PROVE  Begins(e, a, staged)
  <2>1. CASE OnlyData(d, 1, a - 1) /\ staged \in {Started, Nothing}
    <3>1. OnlyData(e, 1, a - 1)
      BY <1>1, <1>2, <2>1
    <3> QED BY <2>1, <3>1 DEF Begins
  <2>2. CASE \E h \in 1 .. a - 1 : d[h].kind = "hello" /\ OnlyData(d, h + 1, a - 1)
    <3>1. PICK h \in 1 .. a - 1 : d[h].kind = "hello" /\ OnlyData(d, h + 1, a - 1)
      BY <2>2
    <3>2. h \in 1 .. Len(d) /\ h + 1 \in 1 .. Len(d) + 1 /\ a - 1 \in 0 .. Len(d)
      BY <1>1
    <3>3. e[h].kind = "hello" /\ OnlyData(e, h + 1, a - 1)
      BY <1>1, <1>2, <3>1, <3>2
    <3> QED BY <3>3 DEF Begins
  <2> QED BY <1>3, <2>1, <2>2 DEF Begins
<1>4. ASSUME Given(d, i, c, staged)
      PROVE  Given(e, i, c, staged)
  <2>1. CASE OnlyData(d, 1, i - 1) /\ staged \in {c, Nothing}
    <3>1. OnlyData(e, 1, i - 1)
      BY <1>1, <1>2, <2>1
    <3> QED BY <2>1, <3>1 DEF Given
  <2>2. CASE \E a \in 1 .. i - 1 : /\ d[a].kind = "anchors" /\ d[a].config = c
                                   /\ OnlyData(d, a + 1, i - 1)
                                   /\ Begins(d, a, staged)
    <3>1. PICK a \in 1 .. i - 1 : /\ d[a].kind = "anchors" /\ d[a].config = c
                                  /\ OnlyData(d, a + 1, i - 1)
                                  /\ Begins(d, a, staged)
      BY <2>2
    <3>2. a \in 1 .. Len(d) /\ a + 1 \in 1 .. Len(d) + 1 /\ i - 1 \in 0 .. Len(d)
          /\ a \in 1 .. Len(d) + 1
      BY <1>1
    <3>3. e[a].kind = "anchors" /\ e[a].config = c /\ OnlyData(e, a + 1, i - 1)
      BY <1>1, <1>2, <3>1, <3>2
    <3>4. Begins(e, a, staged)
      BY <1>3, <3>1, <3>2
    <3> QED BY <3>3, <3>4 DEF Given
  <2> QED BY <1>4, <2>1, <2>2 DEF Given
<1> QED BY <1>3, <1>4 DEF e

\* What a configuration has on the line and what Update writes next.
LEMMA ConfigAppended ==
  ASSUME NEW d \in Seq(Frames), NEW f \in Frames, NEW staged, NEW c
  PROVE  LET e == Append(d, f)
             n == Len(d) + 1
         IN  /\ f.kind = "hello" => Begins(e, n + 1, staged)
             /\ f.kind = "anchors" /\ f.config = c /\ Begins(d, n, staged) =>
                   Given(e, n + 1, c, staged)
             /\ f.kind \in Data =>
                   /\ Begins(d, n, staged) => Begins(e, n + 1, staged)
                   /\ Given(d, n, c, staged) => Given(e, n + 1, c, staged)
<1> DEFINE e == Append(d, f)
           n == Len(d) + 1
<1>1. /\ e \in Seq(Frames) /\ Len(d) \in Nat /\ Len(e) = Len(d) + 1
      /\ e[Len(d) + 1] = f
      /\ \A k \in 1 .. Len(d) : e[k] = d[k]
  BY Appended
<1>2. /\ Begins(d, n, staged) => Begins(e, n, staged)
      /\ Given(d, n, c, staged) => Given(e, n, c, staged)
  BY <1>1, GivenAppended
<1> HIDE DEF e
<1>3. n \in 1 .. Len(e) /\ n \in 1 .. (n + 1) - 1 /\ e[n] = f /\ n \in Nat
      /\ OnlyData(e, n + 1, (n + 1) - 1)
  BY <1>1 DEF OnlyData
<1>4. ASSUME NEW a \in 1 .. n, f.kind \in Data, OnlyData(e, a, n - 1)
      PROVE  OnlyData(e, a, (n + 1) - 1)
  BY <1>1, <1>3, <1>4 DEF OnlyData
<1>5. ASSUME f.kind = "hello" PROVE Begins(e, n + 1, staged)
  BY <1>3, <1>5 DEF Begins
<1>6. ASSUME f.kind = "anchors", f.config = c, Begins(d, n, staged)
      PROVE  Given(e, n + 1, c, staged)
  BY <1>2, <1>3, <1>6 DEF Given
<1>7. ASSUME f.kind \in Data, Begins(d, n, staged)
      PROVE  Begins(e, n + 1, staged)
  <2>1. CASE OnlyData(e, 1, n - 1) /\ staged \in {Started, Nothing}
    <3>1. OnlyData(e, 1, (n + 1) - 1)
      BY <1>1, <1>4, <1>7, <2>1
    <3> QED BY <2>1, <3>1 DEF Begins
  <2>2. CASE \E h \in 1 .. n - 1 : e[h].kind = "hello" /\ OnlyData(e, h + 1, n - 1)
    <3>1. PICK h \in 1 .. n - 1 : e[h].kind = "hello" /\ OnlyData(e, h + 1, n - 1)
      BY <2>2
    <3>2. h + 1 \in 1 .. n /\ h \in 1 .. (n + 1) - 1
      BY <1>1
    <3>3. OnlyData(e, h + 1, (n + 1) - 1)
      BY <1>4, <1>7, <3>1, <3>2
    <3> QED BY <3>1, <3>2, <3>3 DEF Begins
  <2> QED BY <1>2, <1>7, <2>1, <2>2 DEF Begins
<1>8. ASSUME f.kind \in Data, Given(d, n, c, staged)
      PROVE  Given(e, n + 1, c, staged)
  <2>1. CASE OnlyData(e, 1, n - 1) /\ staged \in {c, Nothing}
    <3>1. OnlyData(e, 1, (n + 1) - 1)
      BY <1>1, <1>4, <1>8, <2>1
    <3> QED BY <2>1, <3>1 DEF Given
  <2>2. CASE \E a \in 1 .. n - 1 : /\ e[a].kind = "anchors" /\ e[a].config = c
                                   /\ OnlyData(e, a + 1, n - 1)
                                   /\ Begins(e, a, staged)
    <3>1. PICK a \in 1 .. n - 1 : /\ e[a].kind = "anchors" /\ e[a].config = c
                                  /\ OnlyData(e, a + 1, n - 1)
                                  /\ Begins(e, a, staged)
      BY <2>2
    <3>2. a + 1 \in 1 .. n /\ a \in 1 .. (n + 1) - 1
      BY <1>1
    <3>3. OnlyData(e, a + 1, (n + 1) - 1)
      BY <1>4, <1>8, <3>1, <3>2
    <3> QED BY <3>1, <3>2, <3>3 DEF Given
  <2> QED BY <1>2, <1>8, <2>1, <2>2 DEF Given
<1> QED BY <1>5, <1>6, <1>7, <1>8 DEF e

-----------------------------------------------------------------------------
(* The line loses its first frame.                                         *)

LEMMA Popped ==
  ASSUME NEW S, NEW d \in Seq(S), d # <<>>
  PROVE  LET e == Tail(d)
         IN  /\ e \in Seq(S) /\ Len(d) \in Nat /\ Len(d) >= 1 /\ Len(e) = Len(d) - 1
             /\ Head(d) = d[1] /\ d[1] \in S
             /\ \A i \in 1 .. Len(e) : e[i] = d[i + 1]
             /\ \A i \in 2 .. Len(d) : d[i] = e[i - 1] /\ i - 1 \in 1 .. Len(e)
<1>1. /\ Tail(d) \in Seq(S) /\ Len(d) \in Nat /\ Len(Tail(d)) = Len(d) - 1
      /\ Head(d) = d[1]
      /\ \A i \in 1 .. Len(Tail(d)) : Tail(d)[i] = d[i + 1]
  BY HeadTailProperties, LenProperties
<1>2. Len(d) >= 1 /\ d[1] \in S
  BY EmptySeq, <1>1, ElementOfSeq
<1>3. ASSUME NEW i \in 2 .. Len(d)
      PROVE  d[i] = Tail(d)[i - 1] /\ i - 1 \in 1 .. Len(Tail(d))
  <2>1. i - 1 \in 1 .. Len(Tail(d)) /\ (i - 1) + 1 = i
    BY <1>1
  <2> QED BY <1>1, <2>1
<1> QED BY <1>1, <1>2, <1>3

LEMMA NumberedPopped ==
  ASSUME NEW d \in Seq(Frames), NEW s, Numbered(d, s), d # <<>>
  PROVE  Numbered(Tail(d), s)
<1> DEFINE e == Tail(d)
<1>1. /\ Len(d) \in Nat /\ Len(e) = Len(d) - 1
      /\ \A i \in 1 .. Len(e) : e[i] = d[i + 1]
  BY Popped
<1> HIDE DEF e
<1> SUFFICES ASSUME NEW i \in 1 .. Len(e), e[i].kind = "end"
             PROVE  Ahead(e[i].seq, Len(e) - i + 1, s)
  BY DEF Numbered, e
<1>2. i + 1 \in 1 .. Len(d) /\ e[i] = d[i + 1]
  BY <1>1
<1>3. Ahead(d[i + 1].seq, Len(d) - (i + 1) + 1, s)
  BY <1>2 DEF Numbered
<1>4. Len(d) - (i + 1) + 1 = Len(e) - i + 1
  BY <1>1
<1> QED BY <1>2, <1>3, <1>4

\* What a frame f that leaves the line, or is damaged, makes of what is being given.
Passes(f, staged, next) ==
    \/ next = Nothing
    \/ f.kind = "hello" /\ next = Started
    \/ f.kind = "anchors" /\ next = IF staged = Started THEN f.config ELSE staged
    \/ f.kind \in Data \cup {"end"} /\ next = staged

LEMMA OnlyDataPopped ==
  ASSUME NEW d \in Seq(Frames), d # <<>>, NEW a \in 1 .. Len(d) + 1, NEW b \in 0 .. Len(d),
         OnlyData(d, a, b)
  PROVE  /\ a >= 2 => OnlyData(Tail(d), a - 1, b - 1)
         /\ a = 1 => OnlyData(Tail(d), 1, b - 1)
         /\ a = 1 /\ b >= 1 => d[1].kind \in Data
<1> DEFINE e == Tail(d)
<1>1. /\ Len(d) \in Nat /\ Len(e) = Len(d) - 1
      /\ \A i \in 1 .. Len(e) : e[i] = d[i + 1]
  BY Popped
<1> HIDE DEF e
<1>2. ASSUME NEW k \in 1 .. b - 1, k + 1 >= a
      PROVE  e[k].kind \in Data
  <2>1. k \in 1 .. Len(e) /\ k + 1 \in a .. b
    BY <1>1, <1>2
  <2> QED BY <1>1, <2>1 DEF OnlyData
<1>3. a = 1 /\ b >= 1 => d[1].kind \in Data
  BY DEF OnlyData
<1>4. ASSUME a >= 2 PROVE OnlyData(e, a - 1, b - 1)
  BY <1>2, <1>4 DEF OnlyData
<1>5. ASSUME a = 1 PROVE OnlyData(e, 1, b - 1)
  BY <1>2, <1>5 DEF OnlyData
<1> QED BY <1>3, <1>4, <1>5 DEF e

LEMMA BeginsPopped ==
  ASSUME NEW d \in Seq(Frames), d # <<>>, NEW staged, NEW next,
         Passes(d[1], staged, next),
         NEW i \in 2 .. Len(d) + 1, Begins(d, i, staged)
  PROVE  Begins(Tail(d), i - 1, next)
<1> DEFINE e == Tail(d)
<1>1. /\ Len(d) \in Nat /\ Len(e) = Len(d) - 1 /\ d[1] \in Frames
      /\ \A k \in 2 .. Len(d) : d[k] = e[k - 1] /\ k - 1 \in 1 .. Len(e)
  BY Popped
<1>2. \A a \in 1 .. Len(d) + 1, b \in 0 .. Len(d) : OnlyData(d, a, b) =>
         /\ a >= 2 => OnlyData(e, a - 1, b - 1)
         /\ a = 1 => OnlyData(e, 1, b - 1)
         /\ a = 1 /\ b >= 1 => d[1].kind \in Data
  BY OnlyDataPopped
<1> HIDE DEF e
<1>3. CASE OnlyData(d, 1, i - 1) /\ staged \in {Started, Nothing}
  <2>1. d[1].kind \in Data /\ OnlyData(e, 1, (i - 1) - 1)
    BY <1>1, <1>2, <1>3
  <2>2. next \in {Started, Nothing}
    BY <1>3, <2>1 DEF Passes, Data
  <2> QED BY <2>1, <2>2 DEF Begins, e
<1>4. CASE \E h \in 1 .. i - 1 : d[h].kind = "hello" /\ OnlyData(d, h + 1, i - 1)
  <2>1. PICK h \in 1 .. i - 1 : d[h].kind = "hello" /\ OnlyData(d, h + 1, i - 1)
    BY <1>4
  <2>2. h + 1 \in 1 .. Len(d) + 1 /\ i - 1 \in 0 .. Len(d) /\ h + 1 >= 2 /\ (h + 1) - 1 = h
    BY <1>1
  <2>3. OnlyData(e, h, (i - 1) - 1)
    BY <1>2, <2>1, <2>2
  <2>4. CASE h = 1
    <3>1. next \in {Started, Nothing}
      BY <2>1, <2>4 DEF Passes, Data
    <3> QED BY <2>3, <2>4, <3>1 DEF Begins, e
  <2>5. CASE h # 1
    <3>1. h \in 2 .. Len(d) /\ h - 1 \in 1 .. (i - 1) - 1 /\ (h - 1) + 1 = h
      BY <1>1, <2>5
    <3>2. e[h - 1].kind = "hello" /\ OnlyData(e, (h - 1) + 1, (i - 1) - 1)
      BY <1>1, <2>1, <2>3, <3>1
    <3> QED BY <3>1, <3>2 DEF Begins, e
  <2> QED BY <2>4, <2>5
<1> QED BY <1>3, <1>4 DEF Begins

LEMMA GivenPopped ==
  ASSUME NEW d \in Seq(Frames), d # <<>>, NEW staged, NEW next, NEW c,
         Passes(d[1], staged, next),
         NEW i \in 2 .. Len(d) + 1, Given(d, i, c, staged)
  PROVE  Given(Tail(d), i - 1, c, next)
<1> DEFINE e == Tail(d)
<1>1. /\ Len(d) \in Nat /\ Len(e) = Len(d) - 1 /\ d[1] \in Frames
      /\ \A k \in 2 .. Len(d) : d[k] = e[k - 1] /\ k - 1 \in 1 .. Len(e)
  BY Popped
<1>2. \A a \in 1 .. Len(d) + 1, b \in 0 .. Len(d) : OnlyData(d, a, b) =>
         /\ a >= 2 => OnlyData(e, a - 1, b - 1)
         /\ a = 1 => OnlyData(e, 1, b - 1)
         /\ a = 1 /\ b >= 1 => d[1].kind \in Data
  BY OnlyDataPopped
<1>3. \A a \in 2 .. Len(d) + 1 : Begins(d, a, staged) => Begins(e, a - 1, next)
  BY BeginsPopped
<1> HIDE DEF e
<1>4. CASE OnlyData(d, 1, i - 1) /\ staged \in {c, Nothing}
  <2>1. d[1].kind \in Data /\ OnlyData(e, 1, (i - 1) - 1)
    BY <1>1, <1>2, <1>4
  <2>2. next \in {c, Nothing}
    BY <1>4, <2>1 DEF Passes, Data
  <2> QED BY <2>1, <2>2 DEF Given, e
<1>5. CASE \E a \in 1 .. i - 1 : /\ d[a].kind = "anchors" /\ d[a].config = c
                                 /\ OnlyData(d, a + 1, i - 1)
                                 /\ Begins(d, a, staged)
  <2>1. PICK a \in 1 .. i - 1 : /\ d[a].kind = "anchors" /\ d[a].config = c
                                /\ OnlyData(d, a + 1, i - 1)
                                /\ Begins(d, a, staged)
    BY <1>5
  <2>2. a + 1 \in 1 .. Len(d) + 1 /\ i - 1 \in 0 .. Len(d) /\ a + 1 >= 2 /\ (a + 1) - 1 = a
    BY <1>1
  <2>3. OnlyData(e, a, (i - 1) - 1)
    BY <1>2, <2>1, <2>2
  <2>4. CASE a = 1
    <3>1. staged \in {Started, Nothing}
      BY <2>1, <2>4 DEF Begins
    <3>2. next \in {c, Nothing}
      BY <2>1, <2>4, <3>1 DEF Passes, Data
    <3> QED BY <2>3, <2>4, <3>2 DEF Given, e
  <2>5. CASE a # 1
    <3>1. a \in 2 .. Len(d) /\ a \in 2 .. Len(d) + 1 /\ a - 1 \in 1 .. (i - 1) - 1
          /\ (a - 1) + 1 = a
      BY <1>1, <2>5
    <3>2. /\ e[a - 1].kind = "anchors" /\ e[a - 1].config = c
          /\ OnlyData(e, (a - 1) + 1, (i - 1) - 1)
      BY <1>1, <2>1, <2>3, <3>1
    <3>3. Begins(e, a - 1, next)
      BY <1>3, <2>1, <3>1
    <3> QED BY <3>1, <3>2, <3>3 DEF Given, e
  <2> QED BY <2>4, <2>5
<1> QED BY <1>4, <1>5 DEF Given

\* A reboot in between leaves nothing of what was being given.
LEMMA NothingGiven ==
  ASSUME NEW d, NEW i, NEW c, NEW staged
  PROVE  /\ Begins(d, i, staged) => Begins(d, i, Nothing)
         /\ Given(d, i, c, staged) => Given(d, i, c, Nothing)
<1>1. \A a : Begins(d, a, staged) => Begins(d, a, Nothing)
  BY DEF Begins
<1> QED BY <1>1 DEF Given

-----------------------------------------------------------------------------
(* What is known of the tokens, and of the measurements, on such steps.    *)

LEMMA GivenAllAppended ==
  ASSUME NEW d \in Seq(Frames), NEW f \in Frames, NEW staged, GivenAll(d, staged),
         f.kind = "end" => Given(d, Len(d) + 1, f.config, staged)
  PROVE  GivenAll(Append(d, f), staged)
<1> DEFINE e == Append(d, f)
<1>1. /\ Len(d) \in Nat /\ Len(e) = Len(d) + 1 /\ e[Len(d) + 1] = f
      /\ \A i \in 1 .. Len(d) : e[i] = d[i]
  BY Appended
<1>2. ASSUME NEW i \in 1 .. Len(d) + 1, NEW c, Given(d, i, c, staged)
      PROVE  Given(e, i, c, staged)
  BY <1>2, GivenAppended
<1> HIDE DEF e
<1> SUFFICES ASSUME NEW i \in 1 .. Len(e), e[i].kind = "end"
             PROVE  Given(e, i, e[i].config, staged)
  BY DEF GivenAll, e
<1>3. CASE i = Len(d) + 1
  BY <1>1, <1>2, <1>3
<1>4. CASE i \in 1 .. Len(d)
  <2>1. Given(d, i, d[i].config, staged) /\ e[i] = d[i] /\ i \in 1 .. Len(d) + 1
    BY <1>1, <1>4 DEF GivenAll
  <2> QED BY <1>2, <2>1
<1> QED BY <1>1, <1>3, <1>4

LEMMA GivenAllPopped ==
  ASSUME NEW d \in Seq(Frames), d # <<>>, NEW staged, NEW next,
         Passes(d[1], staged, next), GivenAll(d, staged)
  PROVE  GivenAll(Tail(d), next)
<1> DEFINE e == Tail(d)
<1>1. /\ Len(d) \in Nat /\ Len(e) = Len(d) - 1
      /\ \A i \in 1 .. Len(e) : e[i] = d[i + 1]
  BY Popped
<1>2. ASSUME NEW i \in 2 .. Len(d) + 1, NEW c, Given(d, i, c, staged)
      PROVE  Given(e, i - 1, c, next)
  BY <1>2, GivenPopped
<1> HIDE DEF e
<1> SUFFICES ASSUME NEW i \in 1 .. Len(e), e[i].kind = "end"
             PROVE  Given(e, i, e[i].config, next)
  BY DEF GivenAll, e
<1>3. i + 1 \in 2 .. Len(d) + 1 /\ i + 1 \in 1 .. Len(d) /\ (i + 1) - 1 = i
      /\ e[i] = d[i + 1]
  BY <1>1
<1>4. Given(d, i + 1, d[i + 1].config, staged)
  BY <1>3 DEF GivenAll
<1> QED BY <1>2, <1>3, <1>4

LEMMA OtherAppended ==
  ASSUME NEW d \in Seq(Frames), NEW f \in Frames, NEW u, NEW e, NEW c, NEW cfg,
         f.kind # "end"
  PROVE  /\ Last(d, u, e, c, cfg) => Last(Append(d, f), u, e, c, cfg)
         /\ Settled(d, u, c, cfg) => Settled(Append(d, f), u, c, cfg)
<1> DEFINE g == Append(d, f)
<1>1. /\ Len(d) \in Nat /\ Len(g) = Len(d) + 1 /\ g[Len(d) + 1] = f
      /\ \A i \in 1 .. Len(d) : g[i] = d[i]
  BY Appended
<1> HIDE DEF g
<1>2. \A i \in 1 .. Len(g) : g[i].kind = "end" => i \in 1 .. Len(d) /\ g[i] = d[i]
  BY <1>1
<1>3. NoEnd(d) => NoEnd(g)
  BY <1>2 DEF NoEnd
<1>4. ASSUME Last(d, u, e, c, cfg) PROVE Last(g, u, e, c, cfg)
  <2>1. ASSUME NEW i \in 1 .. Len(g), g[i].kind = "end", g[i].seq = e
        PROVE  g[i].config = c /\ \A k \in i + 1 .. Len(g) : g[k].kind # "end"
    <3>1. i \in 1 .. Len(d) /\ g[i] = d[i]
      BY <1>2, <2>1
    <3>2. d[i].config = c /\ \A k \in i + 1 .. Len(d) : d[k].kind # "end"
      BY <1>4, <2>1, <3>1 DEF Last
    <3>3. ASSUME NEW k \in i + 1 .. Len(g), g[k].kind = "end" PROVE FALSE
      <4>1. k \in 1 .. Len(g)
        BY <1>1, <3>1
      <4>2. k \in 1 .. Len(d) /\ g[k] = d[k]
        BY <1>2, <3>3, <4>1
      <4> QED BY <3>1, <3>2, <3>3, <4>2
    <3> QED BY <3>1, <3>2, <3>3
  <2> QED BY <1>3, <1>4, <2>1 DEF Last
<1> QED BY <1>3, <1>4 DEF Settled, g

\* A new end has a number that no token has.
LEMMA LastSent ==
  ASSUME NEW d \in Seq(Frames), NEW f \in Frames, NEW u \in Seq(Answers),
         NEW s \in 0 .. SeqMod - 1, NEW b \in 0 .. SeqMod - 1, NEW cfg,
         Len(d) <= Capacity, Numbered(d, s), Recent(u, 0, s, b), f.seq = s
  PROVE  Last(Append(d, f), u, s, f.config, cfg)
<1> DEFINE g == Append(d, f)
<1>1. /\ Len(d) \in Nat /\ Len(g) = Len(d) + 1 /\ g[Len(d) + 1] = f
      /\ \A i \in 1 .. Len(d) : g[i] = d[i] /\ d[i] \in Frames
  BY Appended
<1>2. SeqMod \in Nat /\ Capacity \in Nat /\ Capacity + 3 < SeqMod
  BY BeaconAssumption, SeqAssumption
<1> HIDE DEF g
<1>3. ASSUME NEW i \in 1 .. Len(d), d[i].kind = "end" PROVE d[i].seq # s
  <2> DEFINE n == Len(d) - i + 1
  <2>1. Ahead(d[i].seq, n, s) /\ d[i].seq \in 0 .. SeqMod - 1
    BY <1>1, <1>3 DEF Numbered, Frames
  <2>2. n \in 1 .. SeqMod - 1
    BY <1>1, <1>2
  <2> HIDE DEF n
  <2> QED BY <2>1, <2>2, NotAhead
<1>4. ASSUME NEW j \in 1 .. Len(u), u[j].ok PROVE u[j].seq # s
  <2>1. u[j] \in Answers /\ j > 0
    OBVIOUS
  <2>2. PICK n \in 1 .. b : Ahead(u[j].seq, n, s)
    BY <1>4, <2>1 DEF Recent
  <2>3. n \in 1 .. SeqMod - 1 /\ u[j].seq \in 0 .. SeqMod - 1
    BY <1>2, <2>1 DEF Answers
  <2> QED BY <2>2, <2>3, NotAhead
<1>5. ASSUME NEW i \in 1 .. Len(g), g[i].kind = "end", g[i].seq = s
      PROVE  i = Len(g) /\ g[i] = f
  BY <1>1, <1>3, <1>5
<1>6. \A i \in 1 .. Len(g) : g[i].kind = "end" /\ g[i].seq = s =>
         g[i].config = f.config /\ \A k \in i + 1 .. Len(g) : g[k].kind # "end"
  BY <1>1, <1>5
<1> QED BY <1>4, <1>6 DEF Last, g

LEMMA MeasuredAppended ==
  ASSUME NEW d \in Seq(Frames), NEW f \in Frames, NEW cfg, Measured(d, cfg),
         f.kind = "tdoa" => NoEnd(d) /\ cfg \in {f.config, None}
  PROVE  Measured(Append(d, f), cfg)
<1> DEFINE g == Append(d, f)
<1>1. /\ Len(d) \in Nat /\ Len(g) = Len(d) + 1 /\ g[Len(d) + 1] = f
      /\ \A i \in 1 .. Len(d) : g[i] = d[i]
  BY Appended
<1> HIDE DEF g
<1> SUFFICES ASSUME NEW i \in 1 .. Len(g), g[i].kind = "tdoa"
             PROVE  /\ cfg \in {g[i].config, None}
                    /\ \A k \in 1 .. i - 1 : g[k].kind # "end"
  BY DEF Measured, g
<1>2. \A k \in 1 .. i - 1 : k \in 1 .. Len(d) /\ g[k] = d[k]
  BY <1>1
<1>3. CASE i = Len(d) + 1
  BY <1>1, <1>2, <1>3 DEF NoEnd
<1>4. CASE i \in 1 .. Len(d)
  BY <1>1, <1>2, <1>4 DEF Measured
<1> QED BY <1>1, <1>3, <1>4

\* The autopilot keeps its anchors, or forgets them, unless an end leaves the line.
LEMMA OtherPopped ==
  ASSUME NEW d \in Seq(Frames), d # <<>>, NEW u, NEW e, NEW c, NEW cfg, NEW now,
         now \in {cfg, None} \/ d[1].kind = "end"
  PROVE  /\ Last(d, u, e, c, cfg) => Last(Tail(d), u, e, c, now)
         /\ Settled(d, u, c, cfg) => Settled(Tail(d), u, c, now)
         /\ Measured(d, cfg) => Measured(Tail(d), now)
         /\ NoEnd(d) => NoEnd(Tail(d))
<1> DEFINE g == Tail(d)
<1>1. /\ Len(d) \in Nat /\ Len(d) >= 1 /\ Len(g) = Len(d) - 1
      /\ \A i \in 1 .. Len(g) : g[i] = d[i + 1]
  BY Popped
<1> HIDE DEF g
<1>2. \A i \in 1 .. Len(g) : i + 1 \in 1 .. Len(d) /\ g[i] = d[i + 1]
  BY <1>1
<1>3. NoEnd(d) => NoEnd(g) /\ now \in {cfg, None}
  BY <1>1, <1>2 DEF NoEnd
<1>4. ASSUME Last(d, u, e, c, cfg) PROVE Last(g, u, e, c, now)
  <2>1. ASSUME NEW i \in 1 .. Len(g), g[i].kind = "end", g[i].seq = e
        PROVE  g[i].config = c /\ \A k \in i + 1 .. Len(g) : g[k].kind # "end"
    <3>1. d[i + 1].config = c /\ \A k \in (i + 1) + 1 .. Len(d) : d[k].kind # "end"
      BY <1>2, <1>4, <2>1 DEF Last
    <3>2. \A k \in i + 1 .. Len(g) : k + 1 \in (i + 1) + 1 .. Len(d) /\ g[k] = d[k + 1]
      BY <1>1
    <3> QED BY <1>2, <3>1, <3>2
  <2>2. ASSUME NEW j \in 1 .. Len(u), u[j].ok, u[j].seq = e
        PROVE  /\ u[j].config = c /\ now \in {c, None} /\ NoEnd(g)
               /\ \A k \in j + 1 .. Len(u) : ~u[k].ok
    BY <1>3, <1>4, <2>2 DEF Last
  <2> QED BY <2>1, <2>2 DEF Last
<1>5. ASSUME Measured(d, cfg) PROVE Measured(g, now)
  <2> SUFFICES ASSUME NEW i \in 1 .. Len(g), g[i].kind = "tdoa"
               PROVE  /\ now \in {g[i].config, None}
                      /\ \A k \in 1 .. i - 1 : g[k].kind # "end"
    BY DEF Measured
  <2>1. /\ cfg \in {d[i + 1].config, None}
        /\ \A k \in 1 .. (i + 1) - 1 : d[k].kind # "end"
    BY <1>2, <1>5 DEF Measured
  <2>2. 1 \in 1 .. (i + 1) - 1
        /\ \A k \in 1 .. i - 1 : k + 1 \in 1 .. (i + 1) - 1 /\ g[k] = d[k + 1]
    BY <1>1
  <2> QED BY <1>2, <2>1, <2>2
<1>6. ASSUME Settled(d, u, c, cfg) PROVE Settled(g, u, c, now)
  BY <1>3, <1>6 DEF Settled
<1> QED BY <1>3, <1>4, <1>5, <1>6 DEF g

LEMMA Forgotten ==
  ASSUME NEW d, NEW u, NEW e, NEW c, NEW cfg
  PROVE  /\ Last(d, u, e, c, cfg) => Last(d, u, e, c, None)
         /\ Settled(d, u, c, cfg) => Settled(d, u, c, None)
         /\ Measured(d, cfg) => Measured(d, None)
BY DEF Last, Settled, Measured

\* An answer that waits: an error, or the OK that the end at the head of the line gets.
LEMMA ErrorAnswered ==
  ASSUME NEW d, NEW u \in Seq(Answers), NEW x \in Answers, ~x.ok,
         NEW e, NEW c, NEW cfg, NEW first, NEW s, NEW b
  PROVE  /\ Last(d, u, e, c, cfg) => Last(d, Append(u, x), e, c, cfg)
         /\ Settled(d, u, c, cfg) => Settled(d, Append(u, x), c, cfg)
         /\ Recent(u, first, s, b) => Recent(Append(u, x), first, s, b)
<1> DEFINE v == Append(u, x)
<1>1. /\ Len(u) \in Nat /\ Len(v) = Len(u) + 1 /\ v[Len(u) + 1] = x
      /\ \A j \in 1 .. Len(u) : v[j] = u[j]
  BY Appended
<1> HIDE DEF v
<1>2. \A j \in 1 .. Len(v) : v[j].ok => j \in 1 .. Len(u) /\ v[j] = u[j]
  BY <1>1
<1>3. ASSUME Last(d, u, e, c, cfg) PROVE Last(d, v, e, c, cfg)
  <2> SUFFICES ASSUME NEW j \in 1 .. Len(v), v[j].ok, v[j].seq = e
               PROVE  /\ v[j].config = c /\ cfg \in {c, None} /\ NoEnd(d)
                      /\ \A k \in j + 1 .. Len(v) : ~v[k].ok
    BY <1>3 DEF Last
  <2>1. j \in 1 .. Len(u) /\ v[j] = u[j]
    BY <1>2
  <2>2. /\ u[j].config = c /\ cfg \in {c, None} /\ NoEnd(d)
        /\ \A k \in j + 1 .. Len(u) : ~u[k].ok
    BY <1>3, <2>1 DEF Last
  <2>3. ASSUME NEW k \in j + 1 .. Len(v), v[k].ok PROVE FALSE
    <3>1. k \in 1 .. Len(v)
      BY <1>1, <2>1
    <3>2. k \in 1 .. Len(u) /\ v[k] = u[k]
      BY <1>2, <2>3, <3>1
    <3> QED BY <2>1, <2>2, <2>3, <3>2
  <2> QED BY <2>1, <2>2, <2>3
<1>4. ASSUME Settled(d, u, c, cfg) PROVE Settled(d, v, c, cfg)
  BY <1>2, <1>4 DEF Settled, NoOk
<1>5. ASSUME Recent(u, first, s, b) PROVE Recent(v, first, s, b)
  BY <1>2, <1>5 DEF Recent
<1> QED BY <1>3, <1>4, <1>5 DEF v

LEMMA OkAnswered ==
  ASSUME NEW d \in Seq(Frames), d # <<>>, d[1].kind = "end",
         NEW u \in Seq(Answers), NEW x \in Answers, x.seq = d[1].seq, x.config = d[1].config,
         NEW e, NEW c, NEW cfg, Last(d, u, e, c, cfg)
  PROVE  Last(Tail(d), Append(u, x), e, c, x.config)
<1> DEFINE v == Append(u, x)
           g == Tail(d)
<1>1. /\ Len(u) \in Nat /\ Len(v) = Len(u) + 1 /\ v[Len(u) + 1] = x
      /\ \A j \in 1 .. Len(u) : v[j] = u[j]
  BY Appended
<1>2. /\ Len(d) \in Nat /\ Len(d) >= 1 /\ Len(g) = Len(d) - 1
      /\ \A i \in 1 .. Len(g) : g[i] = d[i + 1]
  BY Popped
<1>3. Last(g, u, e, c, x.config)
  BY OtherPopped
<1>4. \A j \in 1 .. Len(u) : u[j].ok => u[j].seq # e
  BY <1>2 DEF Last, NoEnd
<1> HIDE DEF v, g
<1>5. ASSUME x.seq = e PROVE x.config = c /\ NoEnd(g)
  <2>0. 1 \in 1 .. Len(d) /\ d[1].seq = e
    BY <1>2, <1>5
  <2>1. d[1].config = c /\ \A k \in 1 + 1 .. Len(d) : d[k].kind # "end"
    BY <2>0 DEF Last
  <2>2. \A i \in 1 .. Len(g) : i + 1 \in 1 + 1 .. Len(d) /\ g[i] = d[i + 1]
    BY <1>2
  <2> QED BY <2>1, <2>2 DEF NoEnd
<1>6. ASSUME NEW j \in 1 .. Len(v), v[j].ok, v[j].seq = e
      PROVE  /\ v[j].config = c /\ x.config \in {c, None} /\ NoEnd(g)
             /\ \A k \in j + 1 .. Len(v) : ~v[k].ok
  <2>1. j = Len(v) /\ v[j] = x
    BY <1>1, <1>4, <1>6
  <2>2. \A k \in j + 1 .. Len(v) : FALSE
    BY <1>1, <2>1
  <2> QED BY <1>5, <1>6, <2>1, <2>2
<1> QED BY <1>3, <1>6 DEF Last, v, g

LEMMA RecentAnswered ==
  ASSUME NEW u \in Seq(Answers), NEW x \in Answers, NEW first, NEW s, NEW b,
         NEW n \in 1 .. b, Ahead(x.seq, n, s), Recent(u, first, s, b)
  PROVE  Recent(Append(u, x), first, s, b)
<1> DEFINE v == Append(u, x)
<1>1. /\ Len(u) \in Nat /\ Len(v) = Len(u) + 1 /\ v[Len(u) + 1] = x
      /\ \A j \in 1 .. Len(u) : v[j] = u[j]
  BY Appended
<1> HIDE DEF v
<1>2. ASSUME NEW j \in 1 .. Len(v), j > first, v[j].ok
      PROVE  \E m \in 1 .. b : Ahead(v[j].seq, m, s)
  <2>1. CASE j = Len(u) + 1
    BY <1>1, <2>1
  <2>2. CASE j \in 1 .. Len(u)
    BY <1>1, <1>2, <2>2 DEF Recent
  <2> QED BY <1>1, <2>1, <2>2
<1> QED BY <1>2 DEF Recent, v

\* The first answer is read.
LEMMA Read ==
  ASSUME NEW d, NEW u \in Seq(Answers), u # <<>>, NEW e, NEW c, NEW cfg,
         NEW first \in Nat \ {0}, NEW s, NEW b
  PROVE  /\ Last(d, u, e, c, cfg) => Last(d, Tail(u), e, c, cfg)
         /\ Settled(d, u, c, cfg) => Settled(d, Tail(u), c, cfg)
         /\ Recent(u, first, s, b) => Recent(Tail(u), first - 1, s, b)
         /\ u[1].ok /\ u[1].seq = e /\ Last(d, u, e, c, cfg) => Settled(d, Tail(u), c, cfg)
<1> DEFINE v == Tail(u)
<1>1. /\ Len(u) \in Nat /\ Len(u) >= 1 /\ Len(v) = Len(u) - 1
      /\ \A j \in 1 .. Len(v) : v[j] = u[j + 1]
  BY Popped
<1> HIDE DEF v
<1>2. \A j \in 1 .. Len(v) : j + 1 \in 1 .. Len(u) /\ j + 1 \in 1 + 1 .. Len(u) /\ v[j] = u[j + 1]
  BY <1>1
<1>3. ASSUME Last(d, u, e, c, cfg) PROVE Last(d, v, e, c, cfg)
  <2> SUFFICES ASSUME NEW j \in 1 .. Len(v), v[j].ok, v[j].seq = e
               PROVE  /\ v[j].config = c /\ cfg \in {c, None} /\ NoEnd(d)
                      /\ \A k \in j + 1 .. Len(v) : ~v[k].ok
    BY <1>3 DEF Last
  <2>1. /\ u[j + 1].config = c /\ cfg \in {c, None} /\ NoEnd(d)
        /\ \A k \in (j + 1) + 1 .. Len(u) : ~u[k].ok
    BY <1>2, <1>3 DEF Last
  <2>2. \A k \in j + 1 .. Len(v) : k + 1 \in (j + 1) + 1 .. Len(u) /\ v[k] = u[k + 1]
    BY <1>1
  <2> QED BY <1>2, <2>1, <2>2
<1>4. ASSUME Settled(d, u, c, cfg) PROVE Settled(d, v, c, cfg)
  BY <1>2, <1>4 DEF Settled, NoOk
<1>5. ASSUME Recent(u, first, s, b) PROVE Recent(v, first - 1, s, b)
  <2> SUFFICES ASSUME NEW j \in 1 .. Len(v), j > first - 1, v[j].ok
               PROVE  \E n \in 1 .. b : Ahead(v[j].seq, n, s)
    BY DEF Recent
  <2>1. j + 1 > first
    OBVIOUS
  <2> QED BY <1>2, <1>5, <2>1 DEF Recent
<1>6. ASSUME u[1].ok, u[1].seq = e, Last(d, u, e, c, cfg)
      PROVE  Settled(d, v, c, cfg)
  <2>1. /\ cfg \in {c, None} /\ NoEnd(d)
        /\ \A k \in 1 + 1 .. Len(u) : ~u[k].ok
    BY <1>1, <1>6 DEF Last
  <2> QED BY <1>2, <2>1 DEF Settled, NoOk
<1> QED BY <1>3, <1>4, <1>5, <1>6 DEF v

-----------------------------------------------------------------------------
(* The inductive invariant.                                                *)

TypeInv ==
    /\ anchors \in Contents /\ agreed \in Contents
    /\ expected \in 0 .. SeqMod - 1 /\ seq \in 0 .. SeqMod - 1
    /\ mtx \in {"free", "update", "tdoa"}
    /\ update \in [pc : Pcs, toRead : Nat, allSent : BOOLEAN]
    /\ autopilot \in [config : Contents, staged : Contents \cup {Nothing, Started}]
    /\ down \in Seq(Frames) /\ Len(down) <= Capacity
    /\ up \in Seq(Answers) /\ Len(up) <= MaxAnswers
Flags == {accepted, awaiting, due, position, calm} \subseteq BOOLEAN

\* Who is where: a configuration goes out under the mutex, and while none is accepted.
Orderly ==
    /\ update.toRead <= Len(up)
    /\ update.pc # "reading" => update.toRead = 0
    /\ mtx = "update" <=> update.pc \in Sending
    /\ update.pc \in Sending => anchors # None
    /\ mtx = "tdoa" => accepted
    /\ accepted => update.pc \in {"idle", "reading"}
    /\ \A j \in 1 .. Len(up) : up[j].ok => up[j].config \in Configs

\* What the line has of the configuration that is going out.
Staging ==
    /\ update.pc = "anchors" /\ update.allSent =>
          Begins(down, Len(down) + 1, autopilot.staged)
    /\ update.pc = "end" /\ update.allSent =>
          Given(down, Len(down) + 1, anchors, autopilot.staged)
Line == /\ Numbered(down, seq)
        /\ GivenAll(down, autopilot.staged)
        /\ Staging
        /\ Measured(down, autopilot.config)

\* How old an OK may be that Update does not read before it sends the next end: the
\* line was full behind its end, and a position and the frames of Update came after it.
First == IF update.pc = "reading" THEN update.toRead ELSE 0
Budget == Capacity + (IF position THEN 0 ELSE 1)
          + (IF update.pc = "anchors" THEN 1 ELSE IF update.pc = "end" THEN 2 ELSE 0)
Fresh == update.pc \notin {"idle", "noting"} => Recent(up, First, seq, Budget)

Tokens == /\ awaiting => Last(down, up, expected, anchors, autopilot.config)
          /\ accepted => Settled(down, up, anchors, autopilot.config)

Inv == TypeInv /\ Flags /\ Orderly /\ Line /\ Fresh /\ Tokens

LEMMA BudgetType ==
  ASSUME TypeInv
  PROVE  Budget \in 0 .. SeqMod - 1 /\ Capacity <= Budget /\ Capacity \in Nat /\ SeqMod \in Nat
BY BeaconAssumption, SeqAssumption DEF Budget

LEMMA RecentLonger ==
  ASSUME NEW u, NEW first, NEW s, NEW b \in Nat, NEW c \in Nat, b <= c
  PROVE  /\ Recent(u, first, s, b) => Recent(u, first, s, c)
         /\ NoOk(u) => Recent(u, first, s, b)
BY DEF Recent, NoOk

LEMMA InitInv == Init => Inv
<1> SUFFICES ASSUME Init PROVE Inv
  OBVIOUS
<1>1. Len(down) = 0 /\ Len(up) = 0 /\ down \in Seq(Frames) /\ up \in Seq(Answers)
  BY DEF Init
<1>2. TypeInv
  <2>1. update = [pc |-> "idle", toRead |-> 0, allSent |-> TRUE]
    BY DEF Init, Idle
  <2>2. update \in [pc : Pcs, toRead : Nat, allSent : BOOLEAN]
    BY <2>1 DEF Pcs
  <2>3. /\ SeqMod \in Nat \ {0} /\ Capacity \in Nat /\ MaxAnswers \in Nat
        /\ anchors = None /\ agreed = None /\ expected = 0 /\ seq = 0 /\ mtx = "free"
    BY BeaconAssumption DEF Init
  <2>4. autopilot \in [config : Contents, staged : Contents \cup {Nothing, Started}]
    BY DEF Init, Contents
  <2> QED BY <1>1, <2>2, <2>3, <2>4 DEF TypeInv, Contents
<1>5. Flags
  BY DEF Init, Flags
<1>3. Orderly
  BY <1>1 DEF Init, Orderly, Idle, Sending
<1>4. Line
  BY <1>1 DEF Init, Line, Numbered, GivenAll, Staging, Measured, Idle
<1> QED BY <1>2, <1>3, <1>4, <1>5 DEF Init, Inv, Fresh, Tokens, Idle

-----------------------------------------------------------------------------
(* Steps that leave the line alone.                                        *)

LEMMA ConfigureAnchorsStep ==
  ASSUME Inv, ConfigureAnchors
  PROVE  Inv'
<1> USE DEF ConfigureAnchors, Reject, NothingAwaited
<1>1. TypeInv'
  BY BeaconAssumption DEF Inv, TypeInv, Contents
<1>2. Flags'
  BY DEF Inv, Flags
<1>3. Orderly'
  BY DEF Inv, Orderly
<1>4. Line' /\ Fresh'
  BY DEF Inv, Line, Staging, Orderly, Sending, Fresh, First, Budget
<1> QED BY <1>1, <1>2, <1>3, <1>4 DEF Inv, Tokens

\* Where Update goes, from [pc |-> p, toRead |-> n, allSent |-> a].
Goes(p, n, a, x, k, y) ==
    \/ p = "idle" /\ x = "reading" /\ k = Len(up) /\ y = a /\ mtx' = mtx
    \/ p = "reading" /\ x = "timing" /\ n = 0 /\ k = n /\ y = a /\ mtx' = mtx /\ ~accepted
    \/ p = "reading" /\ x = "idle" /\ n = 0 /\ k = n /\ y = a /\ mtx' = mtx
    \/ p = "timing" /\ x \in {"locking", "idle"} /\ k = n /\ y = a /\ mtx' = mtx
    \/ /\ p = "locking" /\ x = "hello" /\ k = n /\ y = TRUE
       /\ mtx = "free" /\ mtx' = "update" /\ anchors # None
    \/ p = "locking" /\ x = "noting" /\ k = n /\ y = a /\ mtx' = mtx
    \/ p = "noting" /\ x = "idle" /\ k = 0 /\ y = TRUE /\ mtx' = mtx

LEMMA PassStep ==
  ASSUME Inv, StartUpdate \/ CheckNeedsConfig \/ CheckRetry \/ SendConfig \/ NoteTime
  PROVE  Inv'
<1> USE DEF config, env
<1>1. /\ UNCHANGED <<anchors, agreed, accepted, awaiting, expected, seq, position, down, up, autopilot>>
      /\ calm' = calm /\ due' \in {due, FALSE}
  BY DEF StartUpdate, CheckNeedsConfig, CheckRetry, SendConfig, NoteTime
<1>2. PICK p \in Pcs, n \in Nat, a \in BOOLEAN : update = [pc |-> p, toRead |-> n, allSent |-> a]
  BY DEF Inv, TypeInv
<1>3. Len(up) \in Nat /\ Len(down) \in Nat
  BY LenProperties DEF Inv, TypeInv
<1>4. PICK x \in Pcs, k \in Nat, y \in BOOLEAN :
         update' = [pc |-> x, toRead |-> k, allSent |-> y] /\ Goes(p, n, a, x, k, y)
  <2>1. CASE StartUpdate
    <3>1. update' = [pc |-> "reading", toRead |-> Len(up), allSent |-> a] /\ p = "idle"
      BY <1>2, <2>1 DEF StartUpdate, At
    <3> QED BY <1>3, <2>1, <3>1 DEF StartUpdate, Pcs, Goes
  <2>2. CASE CheckNeedsConfig
    <3>1. PICK x \in {"timing", "idle"} :
             /\ update' = [pc |-> x, toRead |-> n, allSent |-> a] /\ p = "reading" /\ n = 0
             /\ x = "timing" => ~accepted
      BY <1>2, <2>2 DEF CheckNeedsConfig, At, Goto
    <3> QED BY <2>2, <3>1 DEF CheckNeedsConfig, Pcs, Goes
  <2>3. CASE CheckRetry
    <3>1. PICK x \in {"locking", "idle"} :
             update' = [pc |-> x, toRead |-> n, allSent |-> a] /\ p = "timing"
      BY <1>2, <2>3 DEF CheckRetry, At, Goto
    <3> QED BY <2>3, <3>1 DEF CheckRetry, Pcs, Goes
  <2>4. CASE SendConfig
    <3>1. p = "locking"
      BY <1>2, <2>4 DEF SendConfig, At
    <3>2. CASE /\ mtx = "free" /\ anchors # None /\ mtx' = "update"
               /\ update' = [update EXCEPT !.pc = "hello", !.allSent = TRUE]
      <4>1. update' = [pc |-> "hello", toRead |-> n, allSent |-> TRUE]
        BY <1>2, <3>2
      <4> QED BY <3>1, <3>2, <4>1 DEF Pcs, Goes
    <3>3. CASE Goto("noting") /\ UNCHANGED mtx
      <4>1. update' = [pc |-> "noting", toRead |-> n, allSent |-> a]
        BY <1>2, <3>3 DEF Goto
      <4> QED BY <3>1, <3>3, <4>1 DEF Pcs, Goes
    <3> QED BY <2>4, <3>2, <3>3 DEF SendConfig
  <2>5. CASE NoteTime
    <3>1. update' = [pc |-> "idle", toRead |-> 0, allSent |-> TRUE] /\ p = "noting"
      BY <1>2, <2>5 DEF NoteTime, At, Idle
    <3> QED BY <2>5, <3>1 DEF NoteTime, Pcs, Goes
  <2> QED BY <2>1, <2>2, <2>3, <2>4, <2>5
<1>5. TypeInv'
  BY <1>1, <1>4 DEF Inv, TypeInv, Goes
<1>6. Flags'
  BY <1>1 DEF Inv, Flags
<1>7. Orderly'
  <2>1. /\ update.pc = p /\ update.toRead = n /\ update'.pc = x /\ update'.toRead = k
    BY <1>2, <1>4
  <2>2. Orderly
    BY DEF Inv
  <2>3. k <= Len(up) /\ (x # "reading" => k = 0)
    BY <1>3, <1>4, <2>1, <2>2 DEF Goes, Orderly
  <2>4. /\ mtx' = "update" <=> x \in Sending
        /\ x \in Sending => anchors # None
        /\ mtx' = "tdoa" => accepted
        /\ accepted => x \in {"idle", "reading"}
    BY <1>4, <2>1, <2>2 DEF Goes, Orderly, Sending
  <2> QED BY <1>1, <2>1, <2>2, <2>3, <2>4 DEF Orderly
<1>8. Staging'
  <2>1. update'.pc \notin {"anchors", "end"}
    BY <1>4 DEF Goes
  <2> QED BY <2>1 DEF Staging
<1>9. Fresh'
  <2>1. CASE x = "reading"
    <3>1. update'.pc = "reading" /\ update'.toRead = Len(up)
      BY <1>4, <2>1 DEF Goes
    <3> QED BY <1>1, <1>3, <3>1 DEF Fresh, First, Recent
  <2>2. CASE x \in {"timing", "locking", "hello"}
    <3>1. update.pc = p /\ update.toRead = n /\ update'.pc = x /\ update'.toRead = k
      BY <1>2, <1>4
    <3>2. Fresh
      BY DEF Inv
    <3>3. p \in {"reading", "timing", "locking"} /\ (p = "reading" => n = 0)
      BY <1>4, <2>2 DEF Goes
    <3>4. First' = First /\ Budget' = Budget
      BY <1>1, <2>2, <3>1, <3>3 DEF First, Budget
    <3> QED BY <1>1, <3>1, <3>2, <3>3, <3>4 DEF Fresh
  <2>3. CASE x \in {"idle", "noting"}
    BY <1>4, <2>3 DEF Fresh
  <2> QED BY <1>4, <2>1, <2>2, <2>3 DEF Goes
<1>10. Line' /\ Tokens'
  BY <1>1, <1>8 DEF Inv, Line, Tokens
<1> QED BY <1>5, <1>6, <1>7, <1>9, <1>10 DEF Inv

LEMMA HandleFrameStep ==
  ASSUME Inv, HandleFrame
  PROVE  /\ Inv'
         /\ \/ UNCHANGED <<accepted, awaiting, expected, agreed>>
            \/ Reject
            \/ Accept /\ Head(up).config = anchors /\ anchors # None
<1> USE DEF config, env
<1>1. /\ UNCHANGED <<anchors, due, seq, mtx, position, down, autopilot, calm>>
      /\ up' = Tail(up) /\ update.pc = "reading" /\ update.toRead > 0
      /\ \/ ~Head(up).ok /\ Reject
         \/ Head(up).ok /\ awaiting /\ Head(up).seq = expected /\ Accept /\ mtx = "free"
         \/ UNCHANGED <<accepted, awaiting, expected, agreed>>
      /\ mtx = "tdoa" => UNCHANGED <<accepted, awaiting, expected, agreed>>
  BY DEF HandleFrame, At, TimesOut
<1>2. PICK n \in Nat : n = update.toRead
  BY DEF Inv, TypeInv
<1>3. /\ update'.pc = "reading" /\ update'.toRead = n - 1 /\ update'.allSent = update.allSent
      /\ update' \in [pc : Pcs, toRead : Nat, allSent : BOOLEAN]
  BY <1>1, <1>2 DEF HandleFrame, Inv, TypeInv
<1>4. up \in Seq(Answers) /\ Len(up) \in Nat /\ n <= Len(up) /\ up # <<>>
  BY <1>1, <1>2, EmptySeq, LenProperties DEF Inv, TypeInv, Orderly
<1>5. /\ Tail(up) \in Seq(Answers) /\ Len(Tail(up)) = Len(up) - 1 /\ Head(up) = up[1]
      /\ up[1] \in Answers
      /\ \A j \in 1 .. Len(Tail(up)) : Tail(up)[j] = up[j + 1]
      /\ 1 \in 1 .. Len(up)
  BY <1>4, Popped
<1>6. \/ UNCHANGED <<accepted, awaiting, expected, agreed>>
      \/ Reject
      \/ /\ Accept /\ mtx = "free" /\ Head(up).config = anchors /\ anchors \in Configs
         /\ Settled(down, Tail(up), anchors, autopilot.config)
  <2>1. CASE Head(up).ok /\ awaiting /\ Head(up).seq = expected /\ Accept /\ mtx = "free"
    <3>1. Last(down, up, expected, anchors, autopilot.config)
      BY <2>1 DEF Inv, Tokens
    <3>2. up[1].ok /\ up[1].seq = expected
      BY <1>5, <2>1
    <3>3. up[1].config = anchors /\ up[1].config \in Configs
      BY <1>5, <3>1, <3>2 DEF Last, Inv, Orderly
    <3>4. n \in Nat \ {0}
      BY <1>1, <1>2
    <3>5. Settled(down, Tail(up), anchors, autopilot.config)
      BY <1>4, <3>1, <3>2, <3>4, Read
    <3> QED BY <1>5, <2>1, <3>3, <3>5
  <2> QED BY <1>1, <2>1
<1>7. Len(up) <= MaxAnswers /\ Len(up') <= MaxAnswers /\ MaxAnswers \in Nat
  BY <1>1, <1>4, <1>5, BeaconAssumption DEF Inv, TypeInv
<1>8. agreed' \in Contents /\ expected' \in 0 .. SeqMod - 1
  BY <1>6, BeaconAssumption DEF Accept, Reject, NothingAwaited, Inv, TypeInv, Contents
<1>9. TypeInv'
  BY <1>1, <1>3, <1>5, <1>7, <1>8 DEF Inv, TypeInv
<1>10. Flags'
  BY <1>1, <1>6 DEF Inv, Flags, Accept, Reject, NothingAwaited
<1>11. Orderly'
  <2>1. \A j \in 1 .. Len(up') : up'[j].ok => up'[j].config \in Configs
    BY <1>1, <1>4, <1>5 DEF Inv, Orderly
  <2>2. update'.toRead <= Len(up')
    BY <1>1, <1>3, <1>4, <1>5
  <2>3. mtx' = "tdoa" => accepted'
    BY <1>1 DEF Inv, Orderly
  <2> QED BY <1>1, <1>3, <2>1, <2>2, <2>3 DEF Inv, Orderly, Sending
<1>12. Line'
  BY <1>1, <1>3 DEF Inv, Line, Staging
<1>13. Fresh'
  <2>1. Recent(up, n, seq, Budget) /\ n \in Nat \ {0}
    BY <1>1, <1>2 DEF Inv, Fresh, First
  <2>2. Recent(Tail(up), n - 1, seq, Budget)
    BY <1>4, <2>1, Read
  <2>3. First' = n - 1 /\ Budget' = Budget
    BY <1>1, <1>3 DEF First, Budget
  <2> QED BY <1>1, <2>2, <2>3 DEF Fresh
<1>14. Tokens'
  <2>1. n \in Nat \ {0}
    BY <1>1, <1>2
  <2>2. /\ awaiting => Last(down, Tail(up), expected, anchors, autopilot.config)
        /\ accepted => Settled(down, Tail(up), anchors, autopilot.config)
    BY <1>4, <2>1, Read DEF Inv, Tokens
  <2> QED BY <1>1, <1>6, <2>2 DEF Tokens, Accept, Reject, NothingAwaited
<1>15. anchors \in Configs => anchors # None
  BY BeaconAssumption
<1> QED BY <1>6, <1>9, <1>10, <1>11, <1>12, <1>13, <1>14, <1>15 DEF Inv

LEMMA IdleLineStep ==
  ASSUME Inv, CheckPosition \/ EnqueueTdoa \/ RetryPasses \/ BecomeCalm
  PROVE  Inv'
<1> USE DEF config, env
<1>1. /\ UNCHANGED <<anchors, agreed, accepted, awaiting, expected, seq, update, down, up, autopilot>>
      /\ due' \in {due, TRUE} /\ calm' \in {calm, TRUE}
      /\ mtx' \in {mtx, "tdoa"} /\ (mtx' # mtx => mtx = "free" /\ accepted)
      /\ position' \in {position, TRUE} /\ (position' # position => accepted)
  BY DEF CheckPosition, EnqueueTdoa, RetryPasses, BecomeCalm
<1>2. TypeInv'
  BY <1>1 DEF Inv, TypeInv
<1>3. Flags'
  BY <1>1 DEF Inv, Flags
<1>4. Orderly'
  BY <1>1 DEF Inv, Orderly
<1>5. Line' /\ Tokens'
  BY <1>1 DEF Inv, Line, Staging, Tokens
<1>6. Fresh'
  <2>1. CASE position' = position
    BY <1>1, <2>1 DEF Inv, Fresh, First, Budget
  <2>2. CASE position' # position
    <3>1. NoOk(up')
      BY <1>1, <2>2 DEF Inv, Tokens, Settled
    <3> QED BY <3>1 DEF Fresh, Recent, NoOk
  <2> QED BY <2>1, <2>2
<1> QED BY <1>2, <1>3, <1>4, <1>5, <1>6 DEF Inv

-----------------------------------------------------------------------------
(* Steps that write a frame.                                               *)

LEMMA Written ==
  ASSUME Inv, NEW kind \in Kinds, NEW content \in Contents, Write(kind, content)
  PROVE  /\ \E f \in Frames : /\ down' = Append(down, f) /\ f.kind = kind /\ f.config = content
                              /\ kind = "end" => f.seq = seq
         /\ down' \in Seq(Frames) /\ Len(down') <= Capacity /\ Len(down') = Len(down) + 1
         /\ seq' \in 0 .. SeqMod - 1 /\ seq' = (seq + 1) % SeqMod
         /\ Len(down) <= Capacity
         /\ Numbered(down', seq')
<1> DEFINE n == IF kind = "end" THEN seq ELSE 0
           f == [kind |-> kind, config |-> content, seq |-> n]
<1>1. Len(down) < Capacity /\ down' = Append(down, f) /\ seq' = (seq + 1) % SeqMod
  BY DEF Write
<1>2. seq \in 0 .. SeqMod - 1 /\ SeqMod \in Nat \ {0} /\ Capacity \in Nat /\ down \in Seq(Frames)
      /\ Numbered(down, seq)
  BY BeaconAssumption DEF Inv, TypeInv, Line
<1>3. n \in 0 .. SeqMod - 1
  BY <1>2
<1>4. f \in Frames /\ f.kind = kind /\ f.config = content /\ f.seq = n
  BY <1>3 DEF Frames
<1> HIDE DEF f
<1>5. Append(down, f) \in Seq(Frames) /\ Len(Append(down, f)) = Len(down) + 1 /\ Len(down) \in Nat
  BY <1>2, <1>4, Appended
<1>6. Numbered(Append(down, f), (seq + 1) % SeqMod)
  BY <1>1, <1>2, <1>4, NumberedAppended
<1>7. (seq + 1) % SeqMod \in 0 .. SeqMod - 1
  BY <1>2, NumberType
<1> QED BY <1>1, <1>2, <1>4, <1>5, <1>6, <1>7

LEMMA OtherWritten ==
  ASSUME Inv, NEW kind \in Kinds \ {"end"}, NEW content \in Contents, Write(kind, content),
         kind = "tdoa" => accepted /\ content = anchors,
         UNCHANGED <<anchors, accepted, awaiting, expected, up, autopilot>>
  PROVE  /\ GivenAll(down', autopilot.staged)
         /\ Measured(down', autopilot.config)
         /\ Tokens'
         /\ \A first : \A b \in 0 .. SeqMod - 1 :
               Recent(up, first, seq, b) => Recent(up, first, seq', b + 1)
         /\ kind = "hello" => Begins(down', Len(down') + 1, autopilot.staged)
         /\ kind = "anchors" /\ Begins(down, Len(down) + 1, autopilot.staged) =>
               Given(down', Len(down') + 1, content, autopilot.staged)
         /\ kind \in Data =>
               /\ Begins(down, Len(down) + 1, autopilot.staged) =>
                     Begins(down', Len(down') + 1, autopilot.staged)
               /\ Given(down, Len(down) + 1, anchors, autopilot.staged) =>
                     Given(down', Len(down') + 1, anchors, autopilot.staged)
<1>1. PICK f \in Frames : down' = Append(down, f) /\ f.kind = kind /\ f.config = content
  BY Written
<1>2. /\ down \in Seq(Frames) /\ up \in Seq(Answers) /\ seq \in 0 .. SeqMod - 1
      /\ seq' = (seq + 1) % SeqMod /\ Len(down') = Len(down) + 1
  BY Written DEF Inv, TypeInv
<1>3. f.kind # "end"
  BY <1>1
<1>4. GivenAll(Append(down, f), autopilot.staged)
  <2>1. GivenAll(down, autopilot.staged)
    BY DEF Inv, Line
  <2> QED BY <1>2, <1>3, <2>1, GivenAllAppended
<1>5. Measured(Append(down, f), autopilot.config)
  <2>1. Measured(down, autopilot.config)
    BY DEF Inv, Line
  <2>2. f.kind = "tdoa" => NoEnd(down) /\ autopilot.config \in {f.config, None}
    BY <1>1 DEF Inv, Tokens, Settled
  <2> QED BY <1>2, <2>1, <2>2, MeasuredAppended
<1>6. Tokens'
  <2>1. /\ awaiting => Last(Append(down, f), up, expected, anchors, autopilot.config)
        /\ accepted => Settled(Append(down, f), up, anchors, autopilot.config)
    BY <1>2, <1>3, OtherAppended DEF Inv, Tokens
  <2> QED BY <1>1, <2>1 DEF Tokens
<1>7. ASSUME NEW first, NEW b \in 0 .. SeqMod - 1, Recent(up, first, seq, b)
      PROVE  Recent(up, first, seq', b + 1)
  BY <1>2, <1>7, RecentAppended
<1>8. LET e == Append(down, f)
          n == Len(down) + 1
      IN  /\ f.kind = "hello" => Begins(e, n + 1, autopilot.staged)
          /\ f.kind = "anchors" /\ f.config = content /\ Begins(down, n, autopilot.staged) =>
                Given(e, n + 1, content, autopilot.staged)
          /\ f.kind \in Data =>
                /\ Begins(down, n, autopilot.staged) => Begins(e, n + 1, autopilot.staged)
                /\ Given(down, n, anchors, autopilot.staged) =>
                      Given(e, n + 1, anchors, autopilot.staged)
  <2>1. \A c : LET e == Append(down, f)
                   n == Len(down) + 1
               IN  /\ f.kind = "hello" => Begins(e, n + 1, autopilot.staged)
                   /\ f.kind = "anchors" /\ f.config = c /\ Begins(down, n, autopilot.staged) =>
                         Given(e, n + 1, c, autopilot.staged)
                   /\ f.kind \in Data =>
                         /\ Begins(down, n, autopilot.staged) => Begins(e, n + 1, autopilot.staged)
                         /\ Given(down, n, c, autopilot.staged) =>
                               Given(e, n + 1, c, autopilot.staged)
    BY <1>2, ConfigAppended
  <2> QED BY <2>1
<1> QED BY <1>1, <1>2, <1>4, <1>5, <1>6, <1>7, <1>8

LEMMA SendPartStep ==
  ASSUME Inv, NEW kind \in {"hello", "anchors"},
         SendPart(kind, IF kind = "hello" THEN "anchors" ELSE "end")
  PROVE  Inv'
<1> DEFINE next == IF kind = "hello" THEN "anchors" ELSE "end"
<1> USE DEF config, env
<1>1. /\ UNCHANGED <<anchors, accepted, awaiting, expected, due, agreed, mtx, position, up,
                     autopilot, calm>>
      /\ update.pc = kind
  BY DEF SendPart, At
<1>2. PICK n \in Nat, a \in BOOLEAN : update = [pc |-> kind, toRead |-> n, allSent |-> a]
  BY <1>1 DEF Inv, TypeInv
<1>3. \/ Write(kind, anchors) /\ update' = [pc |-> next, toRead |-> n, allSent |-> a]
      \/ update' = [pc |-> next, toRead |-> n, allSent |-> FALSE] /\ UNCHANGED <<down, seq>>
  BY <1>2 DEF SendPart, Goto
<1>4. PICK y \in BOOLEAN :
         /\ update' = [pc |-> next, toRead |-> n, allSent |-> y] /\ (y => a)
         /\ Write(kind, anchors) \/ (UNCHANGED <<down, seq>> /\ y = FALSE)
  BY <1>3
<1>5. ASSUME Write(kind, anchors)
      PROVE  /\ down' \in Seq(Frames) /\ Len(down') <= Capacity
             /\ seq' \in 0 .. SeqMod - 1
             /\ Recent(up', 0, seq', Budget + 1)
             /\ Line' /\ Tokens'
  <2>1. kind \in Kinds \ {"end"} /\ kind \in Kinds /\ anchors \in Contents /\ kind # "tdoa"
        /\ kind \notin Data
    BY DEF Kinds, Data, Inv, TypeInv
  <2>2. /\ down' \in Seq(Frames) /\ Len(down') <= Capacity
        /\ seq' \in 0 .. SeqMod - 1 /\ Numbered(down', seq')
    BY <1>5, <2>1, Written
  <2>3. /\ GivenAll(down', autopilot.staged)
        /\ Measured(down', autopilot.config)
        /\ Tokens'
        /\ \A first : \A b \in 0 .. SeqMod - 1 :
              Recent(up, first, seq, b) => Recent(up, first, seq', b + 1)
        /\ kind = "hello" => Begins(down', Len(down') + 1, autopilot.staged)
        /\ kind = "anchors" /\ Begins(down, Len(down) + 1, autopilot.staged) =>
              Given(down', Len(down') + 1, anchors, autopilot.staged)
    BY <1>1, <1>5, <2>1, OtherWritten
  <2>4. Staging'
    <3>1. kind = "anchors" /\ a => Begins(down, Len(down) + 1, autopilot.staged)
      BY <1>2 DEF Inv, Line, Staging
    <3>2. update'.pc = next /\ update'.allSent = y
      BY <1>4
    <3> QED BY <1>1, <1>4, <2>3, <3>1, <3>2 DEF Staging
  <2>5. Recent(up', 0, seq', Budget + 1)
    <3>1. update.pc = kind /\ Recent(up, 0, seq, Budget)
      BY <1>1 DEF Inv, Fresh, First
    <3>2. Budget \in 0 .. SeqMod - 1
      BY BudgetType DEF Inv
    <3>3. 0 \in 0 .. SeqMod - 1
      BY BeaconAssumption
    <3> QED BY <1>1, <2>3, <3>1, <3>2, <3>3
  <2>6. Line'
    BY <1>1, <2>2, <2>3, <2>4 DEF Line
  <2> QED BY <2>2, <2>3, <2>5, <2>6
<1>6. ASSUME UNCHANGED <<down, seq>>, y = FALSE
      PROVE  /\ down' \in Seq(Frames) /\ Len(down') <= Capacity
             /\ seq' \in 0 .. SeqMod - 1
             /\ Recent(up', 0, seq', Budget + 1)
             /\ Line' /\ Tokens'
  <2>1. update'.allSent = FALSE
    BY <1>4, <1>6
  <2>2. Staging'
    BY <2>1 DEF Staging
  <2>3. Line' /\ Tokens'
    BY <1>1, <1>6, <2>2 DEF Inv, Line, Tokens
  <2>4. Recent(up, 0, seq, Budget)
    BY <1>1 DEF Inv, Fresh, First
  <2>5. Budget \in Nat /\ Budget + 1 \in Nat /\ Budget <= Budget + 1
    BY BudgetType DEF Inv
  <2>6. Recent(up, 0, seq, Budget + 1)
    BY <2>4, <2>5, RecentLonger
  <2>7. /\ down \in Seq(Frames) /\ Len(down) <= Capacity
        /\ seq \in 0 .. SeqMod - 1
    BY DEF Inv, TypeInv
  <2> QED BY <1>1, <1>6, <2>3, <2>6, <2>7
<1>7. /\ down' \in Seq(Frames) /\ Len(down') <= Capacity
      /\ seq' \in 0 .. SeqMod - 1
      /\ Recent(up', 0, seq', Budget + 1)
      /\ Line' /\ Tokens'
  BY <1>4, <1>5, <1>6
<1>8. next \in {"anchors", "end"} /\ (kind = "hello" => next = "anchors")
      /\ (kind = "anchors" => next = "end")
  OBVIOUS
<1> HIDE DEF next
<1>9. TypeInv'
  <2>1. update' \in [pc : Pcs, toRead : Nat, allSent : BOOLEAN]
    BY <1>4, <1>8 DEF Pcs
  <2> QED BY <1>1, <1>7, <2>1 DEF Inv, TypeInv
<1>10. Flags'
  BY <1>1 DEF Inv, Flags
<1>11. update.pc = kind /\ update.toRead = n /\ update'.pc = next /\ update'.toRead = n
  BY <1>2, <1>4
<1>12. Orderly'
  BY <1>1, <1>8, <1>11 DEF Inv, Orderly, Sending
<1>13. Fresh'
  <2>1. First' = 0 /\ Budget' = Budget + 1
    <3>1. position \in BOOLEAN /\ Capacity \in Nat
      BY BudgetType DEF Inv, Flags
    <3>2. First' = 0
      BY <1>8, <1>11 DEF First
    <3>3. Budget' = Budget + 1
      <4>1. CASE kind = "hello"
        BY <1>1, <1>8, <1>11, <3>1, <4>1 DEF Budget
      <4>2. CASE kind = "anchors"
        BY <1>1, <1>8, <1>11, <3>1, <4>2 DEF Budget
      <4> QED BY <4>1, <4>2
    <3> QED BY <3>2, <3>3
  <2> QED BY <1>7, <2>1 DEF Fresh
<1> QED BY <1>7, <1>9, <1>10, <1>12, <1>13 DEF Inv

LEMMA SendEndStep ==
  ASSUME Inv, SendEnd
  PROVE  Inv' /\ (agreed' = None \/ agreed' = agreed)
<1> USE DEF config, env
<1>1. /\ UNCHANGED <<anchors, due, position, up, autopilot, calm>>
      /\ update.pc = "end" /\ mtx' = "free"
      /\ \/ /\ update.allSent /\ Write("end", anchors)
            /\ expected' = seq /\ awaiting' = TRUE /\ accepted' = FALSE /\ agreed' = None
         \/ /\ awaiting' = FALSE /\ expected' = 0
            /\ UNCHANGED <<down, seq, accepted, agreed>>
  BY DEF SendEnd, At, NothingAwaited
<1>2. PICK n \in Nat, a \in BOOLEAN : update = [pc |-> "end", toRead |-> n, allSent |-> a]
  BY <1>1 DEF Inv, TypeInv
<1>3. update' = [pc |-> "noting", toRead |-> n, allSent |-> a]
  BY <1>2 DEF SendEnd, Goto
<1>4. /\ update'.pc = "noting" /\ update'.toRead = n /\ update.toRead = n
      /\ update' \in [pc : Pcs, toRead : Nat, allSent : BOOLEAN]
  BY <1>2, <1>3 DEF Pcs
<1>5. ~accepted /\ anchors \in Contents
  BY <1>1 DEF Inv, Orderly, TypeInv
<1>6. Staging' /\ Fresh'
  BY <1>4 DEF Staging, Fresh
<1>7. Flags'
  BY <1>1, <1>5 DEF Inv, Flags
<1>8. Orderly'
  BY <1>1, <1>4, <1>5 DEF Inv, Orderly, Sending
<1>9. CASE /\ update.allSent /\ Write("end", anchors)
           /\ expected' = seq /\ awaiting' = TRUE /\ accepted' = FALSE /\ agreed' = None
  <2>1. "end" \in Kinds
    BY DEF Kinds
  <2>2. PICK f \in Frames : /\ down' = Append(down, f) /\ f.kind = "end"
                             /\ f.config = anchors /\ f.seq = seq
    BY <1>5, <1>9, <2>1, Written
  <2>3. /\ down' \in Seq(Frames) /\ Len(down') <= Capacity
        /\ seq' \in 0 .. SeqMod - 1 /\ Numbered(down', seq') /\ Len(down) <= Capacity
    BY <1>5, <1>9, <2>1, Written
  <2>4. /\ down \in Seq(Frames) /\ up \in Seq(Answers) /\ seq \in 0 .. SeqMod - 1
        /\ Numbered(down, seq) /\ GivenAll(down, autopilot.staged)
        /\ Measured(down, autopilot.config)
    BY DEF Inv, TypeInv, Line
  <2>5. Given(down, Len(down) + 1, anchors, autopilot.staged)
    BY <1>1, <1>9 DEF Inv, Line, Staging
  <2>6. GivenAll(Append(down, f), autopilot.staged)
    BY <2>2, <2>4, <2>5, GivenAllAppended
  <2>7. Measured(Append(down, f), autopilot.config)
    BY <2>2, <2>4, MeasuredAppended
  <2>8. Recent(up, 0, seq, Budget) /\ Budget \in 0 .. SeqMod - 1
    BY <1>1, BudgetType DEF Inv, Fresh, First
  <2>9. Last(Append(down, f), up, seq, f.config, autopilot.config)
    BY <2>2, <2>3, <2>4, <2>8, LastSent
  <2>10. Line' /\ Tokens'
    BY <1>1, <1>6, <1>9, <2>2, <2>3, <2>6, <2>7, <2>9 DEF Line, Tokens
  <2>11. TypeInv'
    BY <1>1, <1>4, <1>9, <2>3, <2>4 DEF Inv, TypeInv, Contents
  <2> QED BY <1>6, <1>7, <1>8, <1>9, <2>10, <2>11 DEF Inv
<1>10. CASE /\ awaiting' = FALSE /\ expected' = 0
            /\ UNCHANGED <<down, seq, accepted, agreed>>
  <2>1. Line' /\ Tokens'
    BY <1>1, <1>5, <1>6, <1>10 DEF Inv, Line, Tokens
  <2>2. TypeInv'
    BY <1>1, <1>4, <1>10, BeaconAssumption DEF Inv, TypeInv
  <2> QED BY <1>6, <1>7, <1>8, <1>10, <2>1, <2>2 DEF Inv
<1> QED BY <1>1, <1>9, <1>10

\* A position, or a measurement with the anchors it was taken with.
LEMMA SendDataStep ==
  ASSUME Inv, SendPosition \/ SendTdoa
  PROVE  Inv'
<1> USE DEF config, env
<1>1. /\ UNCHANGED <<anchors, agreed, accepted, awaiting, expected, due, update, up, autopilot, calm>>
      /\ \/ position = TRUE /\ position' = FALSE /\ mtx' = mtx
            /\ (Write("position", None) \/ UNCHANGED <<down, seq>>)
         \/ mtx = "tdoa" /\ mtx' = "free" /\ position' = position
            /\ (Write("tdoa", anchors) \/ UNCHANGED <<down, seq>>)
  BY DEF SendPosition, SendTdoa, Inv, Flags
<1>2. mtx = "tdoa" => accepted
  BY DEF Inv, Orderly
<1>3. accepted => NoOk(up)
  BY DEF Inv, Tokens, Settled
<1>4. Budget \in 0 .. SeqMod - 1 /\ Budget \in Nat /\ Budget + 1 \in Nat /\ Budget <= Budget + 1
  BY BudgetType DEF Inv
<1>5. /\ down' \in Seq(Frames) /\ Len(down') <= Capacity /\ seq' \in 0 .. SeqMod - 1
      /\ Line' /\ Tokens' /\ (Recent(up, First, seq, Budget) => Recent(up, First, seq', Budget + 1))
  <2>1. CASE UNCHANGED <<down, seq>>
    <3>1. Line' /\ Tokens'
      BY <1>1, <2>1 DEF Inv, Line, Staging, Tokens
    <3>2. Recent(up, First, seq, Budget) => Recent(up, First, seq, Budget + 1)
      BY <1>4, RecentLonger
    <3> QED BY <2>1, <3>1, <3>2 DEF Inv, TypeInv
  <2>2. ASSUME NEW kind \in Data, NEW content \in Contents, Write(kind, content),
               kind = "tdoa" => accepted /\ content = anchors
        PROVE  /\ down' \in Seq(Frames) /\ Len(down') <= Capacity /\ seq' \in 0 .. SeqMod - 1
               /\ Line' /\ Tokens'
               /\ (Recent(up, First, seq, Budget) => Recent(up, First, seq', Budget + 1))
    <3>1. kind \in Kinds \ {"end"} /\ kind \in Kinds
      BY DEF Kinds, Data
    <3>2. /\ down' \in Seq(Frames) /\ Len(down') <= Capacity
          /\ seq' \in 0 .. SeqMod - 1 /\ Numbered(down', seq')
      BY <2>2, <3>1, Written
    <3>3. /\ GivenAll(down', autopilot.staged)
          /\ Measured(down', autopilot.config)
          /\ Tokens'
          /\ \A first : \A b \in 0 .. SeqMod - 1 :
                Recent(up, first, seq, b) => Recent(up, first, seq', b + 1)
          /\ Begins(down, Len(down) + 1, autopilot.staged) =>
                Begins(down', Len(down') + 1, autopilot.staged)
          /\ Given(down, Len(down) + 1, anchors, autopilot.staged) =>
                Given(down', Len(down') + 1, anchors, autopilot.staged)
      BY <1>1, <2>2, <3>1, OtherWritten
    <3>4. Staging'
      BY <1>1, <3>3 DEF Inv, Line, Staging
    <3> QED BY <1>1, <1>4, <3>2, <3>3, <3>4 DEF Line
  <2>3. CASE Write("position", None)
    <3>1. "position" \in Data /\ None \in Contents
      BY DEF Data, Contents
    <3> QED BY <2>2, <2>3, <3>1
  <2>4. CASE Write("tdoa", anchors) /\ mtx = "tdoa"
    <3>1. "tdoa" \in Data /\ anchors \in Contents
      BY DEF Data, Inv, TypeInv
    <3> QED BY <1>2, <2>2, <2>4, <3>1
  <2> QED BY <1>1, <2>1, <2>3, <2>4
<1>6. TypeInv'
  BY <1>1, <1>5 DEF Inv, TypeInv
<1>7. Flags'
  BY <1>1 DEF Inv, Flags
<1>8. Orderly'
  BY <1>1 DEF Inv, Orderly
<1>9. Fresh'
  <2>1. CASE mtx = "tdoa"
    <3>1. NoOk(up')
      BY <1>1, <1>2, <1>3, <2>1
    <3> QED BY <3>1 DEF Fresh, Recent, NoOk
  <2>2. CASE position = TRUE /\ position' = FALSE
    <3>1. Budget' = Budget + 1 /\ First' = First
      <4>1. Capacity \in Nat
        BY BudgetType DEF Inv
      <4> QED BY <1>1, <2>2, <4>1 DEF Budget, First
    <3> QED BY <1>1, <1>5, <3>1 DEF Inv, Fresh
  <2> QED BY <1>1, <2>1, <2>2
<1> QED BY <1>5, <1>6, <1>7, <1>8, <1>9 DEF Inv

-----------------------------------------------------------------------------
(* Steps that take a frame from the line, and the autopilot's reboot.      *)

\* The autopilot takes a frame, answers it with x if it answers, and has cfg and st then.
LEMMA TakenStep ==
  ASSUME Inv, down # <<>>, down' = Tail(down),
         UNCHANGED <<config, seq, mtx, update, position, calm>>,
         NEW cfg \in Contents, NEW st \in Contents \cup {Nothing, Started},
         autopilot' = [config |-> cfg, staged |-> st],
         Passes(down[1], autopilot.staged, st),
         NEW x \in Answers, up' = up \/ (up' = Append(up, x) /\ Len(up) < MaxAnswers),
         \/ cfg \in {autopilot.config, None} /\ ~x.ok
         \/ /\ down[1].kind = "end" /\ cfg = down[1].config /\ cfg \in Configs
            /\ x.seq = down[1].seq /\ x.config = cfg
  PROVE  Inv'
<1> USE DEF config
<1>1. /\ down \in Seq(Frames) /\ up \in Seq(Answers) /\ Len(up) \in Nat
      /\ Numbered(down, seq) /\ GivenAll(down, autopilot.staged)
      /\ Measured(down, autopilot.config) /\ Len(down) <= Capacity
  BY LenProperties DEF Inv, TypeInv, Line
<1>2. /\ down' \in Seq(Frames) /\ Len(down) \in Nat /\ Len(down) >= 1
      /\ Len(down') = Len(down) - 1 /\ down[1] \in Frames
  BY <1>1, Popped
<1>3. /\ autopilot'.config = cfg /\ autopilot'.staged = st
      /\ autopilot' \in [config : Contents, staged : Contents \cup {Nothing, Started}]
  OBVIOUS
<1>4. /\ up' \in Seq(Answers) /\ Len(up') <= MaxAnswers /\ Len(up) <= Len(up')
  <2>1. Append(up, x) \in Seq(Answers) /\ Len(Append(up, x)) = Len(up) + 1
    BY <1>1, Appended
  <2>2. Len(up) <= MaxAnswers /\ MaxAnswers \in Nat
    BY BeaconAssumption DEF Inv, TypeInv
  <2>3. CASE up' = up
    BY <1>1, <2>2, <2>3
  <2>4. CASE up' = Append(up, x) /\ Len(up) < MaxAnswers
    <3>1. Len(up) + 1 <= MaxAnswers /\ Len(up) <= Len(up) + 1
      BY <1>1, <2>2, <2>4
    <3> QED BY <2>1, <2>4, <3>1
  <2> QED BY <2>3, <2>4
<1>5. TypeInv'
  <2>1. Len(down') <= Capacity
    <3>1. Capacity \in Nat
      BY BeaconAssumption
    <3> QED BY <1>1, <1>2, <3>1
  <2> QED BY <1>2, <1>3, <1>4, <2>1 DEF Inv, TypeInv
<1>6. Flags'
  BY DEF Inv, Flags
<1>7. Orderly'
  <2>1. \A j \in 1 .. Len(up') : up'[j].ok => up'[j].config \in Configs
    <3>1. \A j \in 1 .. Len(up) : up[j].ok => up[j].config \in Configs
      BY DEF Inv, Orderly
    <3>2. CASE up' = Append(up, x)
      <4>1. /\ Len(up') = Len(up) + 1 /\ up'[Len(up) + 1] = x
            /\ \A j \in 1 .. Len(up) : up'[j] = up[j]
        BY <1>1, <3>2, Appended
      <4>2. x.ok => x.config \in Configs
        OBVIOUS
      <4>3. \A j \in 1 .. Len(up') : j \in 1 .. Len(up) \/ j = Len(up) + 1
        BY <1>1, <4>1
      <4> QED BY <3>1, <4>1, <4>2, <4>3
    <3> QED BY <3>1, <3>2
  <2>2. update'.toRead <= Len(up')
    <3>1. update.toRead \in Nat /\ update.toRead <= Len(up)
      BY DEF Inv, TypeInv, Orderly
    <3>2. Len(up') \in Nat
      BY <1>4, LenProperties
    <3> QED BY <1>1, <1>4, <3>1, <3>2
  <2> QED BY <2>1, <2>2 DEF Inv, Orderly
<1>8. Line'
  <2>1. Numbered(Tail(down), seq)
    BY <1>1, NumberedPopped
  <2>2. GivenAll(Tail(down), st)
    BY <1>1, GivenAllPopped
  <2>3. Measured(Tail(down), cfg)
    <3>1. cfg \in {autopilot.config, None} \/ down[1].kind = "end"
      OBVIOUS
    <3> QED BY <1>1, <3>1, OtherPopped
  <2>4. Staging'
    <3>1. Len(down) + 1 \in 2 .. Len(down) + 1 /\ (Len(down) + 1) - 1 = Len(Tail(down)) + 1
      BY <1>2
    <3>2. Begins(down, Len(down) + 1, autopilot.staged) => Begins(Tail(down), Len(Tail(down)) + 1, st)
      BY <1>1, <3>1, BeginsPopped
    <3>3. Given(down, Len(down) + 1, anchors, autopilot.staged) =>
             Given(Tail(down), Len(Tail(down)) + 1, anchors, st)
      BY <1>1, <3>1, GivenPopped
    <3> QED BY <1>3, <3>2, <3>3 DEF Inv, Line, Staging
  <2> QED BY <1>3, <2>1, <2>2, <2>3, <2>4 DEF Line
<1>9. ASSUME Recent(up, First, seq, Budget)
      PROVE  Recent(up', First, seq, Budget)
  <2>1. CASE up' = up
    BY <1>9, <2>1
  <2>2. CASE up' = Append(up, x) /\ ~x.ok
    BY <1>1, <1>9, <2>2, ErrorAnswered
  <2>3. CASE up' = Append(up, x) /\ down[1].kind = "end" /\ x.seq = down[1].seq
    <3> DEFINE n == Len(down)
    <3>1. 1 \in 1 .. Len(down) /\ Len(down) - 1 + 1 = n
      BY <1>2
    <3>2. Ahead(x.seq, n, seq)
      BY <1>1, <2>3, <3>1 DEF Numbered
    <3>3. n \in 1 .. Budget
      <4>1. Budget \in Nat /\ Capacity <= Budget /\ Capacity \in Nat
        BY BudgetType DEF Inv
      <4> QED BY <1>1, <1>2, <4>1
    <3> HIDE DEF n
    <3> QED BY <1>1, <1>9, <2>3, <3>2, <3>3, RecentAnswered
  <2> QED BY <2>1, <2>2, <2>3
<1>10. Fresh'
  <2>1. First' = First /\ Budget' = Budget
    BY DEF First, Budget
  <2> QED BY <1>9, <2>1 DEF Inv, Fresh
<1>11. Tokens'
  <2>1. ASSUME awaiting
        PROVE  Last(Tail(down), up', expected, anchors, cfg)
    <3>1. Last(down, up, expected, anchors, autopilot.config)
      BY <2>1 DEF Inv, Tokens
    <3>2. Last(Tail(down), up, expected, anchors, cfg)
      <4>1. cfg \in {autopilot.config, None} \/ down[1].kind = "end"
        OBVIOUS
      <4> QED BY <1>1, <3>1, <4>1, OtherPopped
    <3>3. CASE up' = Append(up, x) /\ ~x.ok
      BY <1>1, <3>2, <3>3, ErrorAnswered
    <3>4. CASE up' = Append(up, x) /\ down[1].kind = "end" /\ x.seq = down[1].seq
               /\ x.config = cfg /\ cfg = down[1].config
      <4>1. Last(Tail(down), Append(up, x), expected, anchors, x.config)
        BY <1>1, <3>1, <3>4, OkAnswered
      <4> QED BY <3>4, <4>1
    <3> QED BY <3>2, <3>3, <3>4
  <2>2. ASSUME accepted
        PROVE  Settled(Tail(down), up', anchors, cfg)
    <3>1. Settled(down, up, anchors, autopilot.config)
      BY <2>2 DEF Inv, Tokens
    <3>2. cfg \in {autopilot.config, None} /\ ~x.ok
      <4>1. 1 \in 1 .. Len(down)
        BY <1>2
      <4> QED BY <3>1, <4>1 DEF Settled, NoEnd
    <3>3. Settled(Tail(down), up, anchors, cfg)
      BY <1>1, <3>1, <3>2, OtherPopped
    <3>4. CASE up' = Append(up, x)
      BY <1>1, <3>2, <3>3, <3>4, ErrorAnswered
    <3> QED BY <3>3, <3>4
  <2> QED BY <1>3, <2>1, <2>2 DEF Tokens
<1> QED BY <1>5, <1>6, <1>7, <1>8, <1>10, <1>11 DEF Inv

LEMMA ErrorType ==
  [ok |-> FALSE, seq |-> 0, config |-> None] \in Answers
BY BeaconAssumption DEF Answers, Contents

LEMMA ReceiveStep ==
  ASSUME Inv, Receive
  PROVE  Inv'
<1> DEFINE frame == down[1]
           error == [ok |-> FALSE, seq |-> 0, config |-> None]
<1>1. /\ down # <<>> /\ down' = Tail(down)
      /\ UNCHANGED <<config, seq, mtx, update, position, calm>>
  BY DEF Receive, env
<1>2. /\ down \in Seq(Frames) /\ GivenAll(down, autopilot.staged)
      /\ autopilot \in [config : Contents, staged : Contents \cup {Nothing, Started}]
  BY DEF Inv, TypeInv, Line
<1>3. frame \in Frames /\ Head(down) = frame /\ Len(down) \in Nat /\ Len(down) >= 1
  BY <1>1, <1>2, Popped
<1>4. error \in Answers /\ ~error.ok
  BY ErrorType
<1>5. frame.kind \in Kinds /\ frame.config \in Contents /\ frame.seq \in 0 .. SeqMod - 1
  BY <1>3 DEF Frames
<1>6. autopilot.config \in Contents /\ autopilot.staged \in Contents \cup {Nothing, Started}
  BY <1>2
<1>7. PICK cfg0, st0 : autopilot = [config |-> cfg0, staged |-> st0]
  BY <1>2
<1>8. \/ frame.kind = "hello" /\ up' = up
           /\ \E kept \in {autopilot.config, None} : autopilot' = [config |-> kept, staged |-> Started]
      \/ /\ frame.kind = "anchors" /\ autopilot.staged = Started /\ up' = up
         /\ autopilot' = [autopilot EXCEPT !.staged = frame.config]
      \/ /\ frame.kind = "end" /\ autopilot.staged \in Configs
         /\ autopilot' = [config |-> autopilot.staged, staged |-> Nothing]
         /\ Answer(TRUE, frame.seq, autopilot.staged)
      \/ /\ frame.kind # "hello" /\ ~(frame.kind = "anchors" /\ autopilot.staged = Started)
         /\ autopilot' = autopilot
         /\ up' = up \/ Answer(FALSE, 0, None)
  BY <1>3 DEF Receive
<1> HIDE DEF frame, error
<1>9. CASE frame.kind = "hello" /\ up' = up
           /\ \E kept \in {autopilot.config, None} : autopilot' = [config |-> kept, staged |-> Started]
  <2>1. PICK kept \in {autopilot.config, None} : autopilot' = [config |-> kept, staged |-> Started]
    BY <1>9
  <2>2. kept \in Contents /\ Started \in Contents \cup {Nothing, Started}
    BY <1>6 DEF Contents
  <2>3. Passes(down[1], autopilot.staged, Started)
    BY <1>9 DEF Passes, frame
  <2> QED BY <1>1, <1>4, <1>9, <2>1, <2>2, <2>3, TakenStep
<1>10. CASE /\ frame.kind = "anchors" /\ autopilot.staged = Started /\ up' = up
            /\ autopilot' = [autopilot EXCEPT !.staged = frame.config]
  <2>1. autopilot' = [config |-> autopilot.config, staged |-> frame.config]
    BY <1>7, <1>10
  <2>2. Passes(down[1], autopilot.staged, frame.config)
    BY <1>10 DEF Passes, frame
  <2>3. frame.config \in Contents \cup {Nothing, Started}
    BY <1>5
  <2> QED BY <1>1, <1>4, <1>6, <1>10, <2>1, <2>2, <2>3, TakenStep
<1>11. CASE /\ frame.kind = "end" /\ autopilot.staged \in Configs
            /\ autopilot' = [config |-> autopilot.staged, staged |-> Nothing]
            /\ Answer(TRUE, frame.seq, autopilot.staged)
  <2> DEFINE x == [ok |-> TRUE, seq |-> frame.seq, config |-> autopilot.staged]
  <2>1. Given(down, 1, frame.config, autopilot.staged)
    BY <1>3, <1>11 DEF GivenAll, frame, Inv, Line
  <2>2. autopilot.staged = frame.config
    <3>1. autopilot.staged \in {frame.config, Nothing}
      BY <2>1 DEF Given
    <3>2. Nothing \notin Configs
      BY BeaconAssumption DEF Nothing
    <3> QED BY <1>11, <3>1, <3>2
  <2>3. x \in Answers /\ x.seq = frame.seq /\ x.config = autopilot.staged
    BY <1>5, <1>6, <2>2 DEF Answers
  <2>4. up' = up \/ (up' = Append(up, x) /\ Len(up) < MaxAnswers)
    BY <1>11 DEF Answer
  <2>5. Passes(down[1], autopilot.staged, Nothing)
    BY DEF Passes
  <2>6. /\ autopilot.staged \in Contents /\ Nothing \in Contents \cup {Nothing, Started}
        /\ autopilot.staged = down[1].config /\ x.seq = down[1].seq /\ down[1].kind = "end"
    BY <1>5, <1>11, <2>2, <2>3 DEF frame
  <2> HIDE DEF x
  <2> QED BY <1>1, <1>11, <2>3, <2>4, <2>5, <2>6, TakenStep
<1>12. CASE /\ frame.kind # "hello" /\ ~(frame.kind = "anchors" /\ autopilot.staged = Started)
            /\ autopilot' = autopilot
            /\ up' = up \/ Answer(FALSE, 0, None)
  <2>1. autopilot' = [config |-> autopilot.config, staged |-> autopilot.staged]
    BY <1>7, <1>12
  <2>2. Passes(down[1], autopilot.staged, autopilot.staged)
    BY <1>5, <1>12 DEF Passes, Kinds, Data, frame
  <2>3. up' = up \/ (up' = Append(up, error) /\ Len(up) < MaxAnswers)
    BY <1>12 DEF Answer, error
  <2> QED BY <1>1, <1>4, <1>6, <2>1, <2>2, <2>3, TakenStep
<1> QED BY <1>8, <1>9, <1>10, <1>11, <1>12

LEMMA DamageStep ==
  ASSUME Inv, Damage
  PROVE  Inv'
<1> DEFINE error == [ok |-> FALSE, seq |-> 0, config |-> None]
<1>1. autopilot \in [config : Contents, staged : Contents \cup {Nothing, Started}]
  BY DEF Inv, TypeInv
<1>2. /\ autopilot' = [config |-> autopilot.config, staged |-> Nothing]
      /\ autopilot.config \in Contents
  BY <1>1 DEF Damage
<1>3. /\ down # <<>> /\ down' = Tail(down)
      /\ UNCHANGED <<config, seq, mtx, update, position, calm>>
  BY DEF Damage, env
<1>4. error \in Answers /\ ~error.ok
  BY ErrorType
<1>5. up' = up \/ (up' = Append(up, error) /\ Len(up) < MaxAnswers)
  BY DEF Damage, Answer
<1>6. Passes(down[1], autopilot.staged, Nothing)
  BY DEF Passes
<1> HIDE DEF error
<1> QED BY <1>2, <1>3, <1>4, <1>5, <1>6, TakenStep

LEMMA RebootStep ==
  ASSUME Inv, Reboot
  PROVE  Inv'
<1>1. /\ UNCHANGED <<anchors, agreed, accepted, awaiting, expected, due, seq, mtx, update,
                     position, down, up, calm>>
      /\ autopilot' = [config |-> None, staged |-> Nothing]
  BY DEF Reboot, config, env
<1>2. /\ autopilot'.config = None /\ autopilot'.staged = Nothing
      /\ autopilot' \in [config : Contents, staged : Contents \cup {Nothing, Started}]
  BY <1>1 DEF Contents
<1>3. TypeInv' /\ Flags' /\ Orderly' /\ Fresh'
  BY <1>1, <1>2 DEF Inv, TypeInv, Flags, Orderly, Fresh, First, Budget
<1>4. \A i, c : /\ Begins(down, i, autopilot.staged) => Begins(down, i, Nothing)
                /\ Given(down, i, c, autopilot.staged) => Given(down, i, c, Nothing)
  BY NothingGiven
<1>5. Line'
  BY <1>1, <1>2, <1>4, Forgotten DEF Inv, Line, GivenAll, Staging
<1>6. Tokens'
  BY <1>1, <1>2, Forgotten DEF Inv, Tokens
<1> QED BY <1>3, <1>5, <1>6 DEF Inv

-----------------------------------------------------------------------------
(* The theorems.                                                           *)

\* What a step makes of the acknowledgement in force.
Kept == UNCHANGED <<anchors, agreed>>
Agreed == agreed' = anchors /\ anchors # None /\ UNCHANGED anchors
Retracted == agreed' = None /\ UNCHANGED anchors
Wanted == agreed' = None /\ anchors' \in Configs \cup {None}

LEMMA Step ==
  ASSUME Inv, [Next]_vars
  PROVE  Inv' /\ (Kept \/ Agreed \/ Retracted \/ Wanted)
<1>1. CASE ConfigureAnchors
  BY <1>1, ConfigureAnchorsStep DEF ConfigureAnchors, Reject, Wanted
<1>2. CASE StartUpdate \/ CheckNeedsConfig \/ CheckRetry \/ SendConfig \/ NoteTime
  <2>1. Kept
    BY <1>2 DEF StartUpdate, CheckNeedsConfig, CheckRetry, SendConfig, NoteTime, config, Kept
  <2> QED BY <1>2, <2>1, PassStep
<1>3. CASE HandleFrame
  <2>1. UNCHANGED anchors
    BY <1>3 DEF HandleFrame
  <2> QED BY <1>3, <2>1, HandleFrameStep DEF Kept, Agreed, Retracted, Accept, Reject
<1>4. CASE SendHello
  <2>1. SendPart("hello", IF "hello" = "hello" THEN "anchors" ELSE "end")
    BY <1>4 DEF SendHello
  <2>2. Kept
    BY <1>4 DEF SendHello, SendPart, config, Kept
  <2> QED BY <2>1, <2>2, SendPartStep
<1>5. CASE SendAnchors
  <2>1. SendPart("anchors", IF "anchors" = "hello" THEN "anchors" ELSE "end")
    BY <1>5 DEF SendAnchors
  <2>2. Kept
    BY <1>5 DEF SendAnchors, SendPart, config, Kept
  <2> QED BY <2>1, <2>2, SendPartStep
<1>6. CASE SendEnd
  <2>1. UNCHANGED anchors
    BY <1>6 DEF SendEnd
  <2> QED BY <1>6, <2>1, SendEndStep DEF Kept, Retracted
<1>7. CASE CheckPosition \/ EnqueueTdoa \/ RetryPasses \/ BecomeCalm
  <2>1. Kept
    BY <1>7 DEF CheckPosition, EnqueueTdoa, RetryPasses, BecomeCalm, config, Kept
  <2> QED BY <1>7, <2>1, IdleLineStep
<1>8. CASE SendPosition \/ SendTdoa
  <2>1. Kept
    BY <1>8 DEF SendPosition, SendTdoa, config, Kept
  <2> QED BY <1>8, <2>1, SendDataStep
<1>9. CASE Receive
  <2>1. Kept
    BY <1>9 DEF Receive, config, Kept
  <2> QED BY <1>9, <2>1, ReceiveStep
<1>10. CASE Damage
  <2>1. Kept
    BY <1>10 DEF Damage, config, Kept
  <2> QED BY <1>10, <2>1, DamageStep
<1>11. CASE Reboot
  <2>1. Kept
    BY <1>11 DEF Reboot, config, Kept
  <2> QED BY <1>11, <2>1, RebootStep
<1>12. CASE UNCHANGED vars
  <2>1. UNCHANGED <<anchors, agreed, accepted, awaiting, expected, due, seq, mtx, update,
                    position, down, up, autopilot, calm>>
    BY <1>12 DEF vars, config, env
  <2>2. Staging' = Staging /\ First' = First /\ Budget' = Budget
    BY <2>1 DEF Staging, First, Budget
  <2> QED BY <2>1, <2>2 DEF Inv, TypeInv, Flags, Orderly, Line, Fresh, Tokens, Kept
<1> QED BY <1>1, <1>2, <1>3, <1>4, <1>5, <1>6, <1>7, <1>8, <1>9, <1>10, <1>11, <1>12
        DEF Next, UpdateStep

\* The invariant: what the tasks, the line and the answers that wait are between two
\* accesses of rtlslink_beacon_backend.cpp.
THEOREM Invariance == Spec => []Inv
<1>1. Init => Inv
  BY InitInv
<1>2. Inv /\ [Next]_vars => Inv'
  BY Step
<1> QED BY <1>1, <1>2, PTL DEF Spec

\* The backend's fields stay in their ranges, Update never reads past the answers that
\* wait, and no more frames are on the line than it holds.
THEOREM TypeCorrect == Spec => []TypeOK
<1>1. Inv => TypeOK
  <2> SUFFICES ASSUME Inv PROVE TypeOK
    OBVIOUS
  <2>1. update.toRead \in 0 .. Len(up)
    <3>1. update.toRead \in Nat /\ update.toRead <= Len(up) /\ Len(up) \in Nat
      BY LenProperties DEF Inv, TypeInv, Orderly
    <3> QED BY <3>1
  <2>2. {accepted, awaiting, due, position, calm} \subseteq BOOLEAN
    BY DEF Inv, Flags
  <2>3. autopilot.config \in Contents
    BY DEF Inv, TypeInv
  <2> QED BY <2>1, <2>2, <2>3 DEF Inv, TypeInv, TypeOK
<1> QED BY <1>1, Invariance, PTL

\* A measurement that EnqueueTdoa sent reaches the autopilot while it has the anchors the
\* measurement names by their index, or none: never with the anchors of a later
\* configuration, whatever is lost, late or rebooted in between.
THEOREM TdoaKeepsItsConfig == Spec => []TdoaUnderItsConfig
<1>1. Inv => TdoaUnderItsConfig
  <2> SUFFICES ASSUME Inv, down # <<>>, Head(down).kind = "tdoa"
               PROVE  autopilot.config \in {Head(down).config, None}
    BY DEF TdoaUnderItsConfig
  <2>1. down \in Seq(Frames) /\ Measured(down, autopilot.config)
    BY DEF Inv, TypeInv, Line
  <2>2. Head(down) = down[1] /\ Len(down) \in Nat /\ Len(down) >= 1
    BY <2>1, Popped
  <2> QED BY <2>1, <2>2 DEF Measured
<1> QED BY <1>1, Invariance, PTL

\* The backend implements BeaconPromise: what config_accepted_ stands for is confirmed by
\* the autopilot and is what ConfigureAnchors gave last, although the numbers of the
\* frames repeat and the answers are late.
THEOREM RefinesPromise == Spec => KeepsPromise
<1>1. Init => Promise!Init
  BY DEF Init, Promise!Init
<1>2. Inv /\ [Next]_vars => [Promise!Next]_<<anchors, agreed>>
  BY Step DEF Kept, Agreed, Retracted, Wanted, Promise!Next, Promise!Want,
              Promise!Agree, Promise!Retract
<1> QED BY <1>1, <1>2, Invariance, PTL DEF Spec, KeepsPromise, Promise!Spec
=============================================================================
