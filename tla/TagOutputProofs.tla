--------------------------- MODULE TagOutputProofs ---------------------------
(***************************************************************************)
(* Proofs about the two ends of what a tag tells its autopilot: the        *)
(* anchors that its positions are solved with (TagGeometry), and what the  *)
(* application makes of the positions (AppOutput).                         *)
(* The first part holds for every set of commands and any number of them,  *)
(* the second for all limits and any number of parameter writes.           *)
(*                                                                         *)
(* A command is a sequence of accesses between which the other tasks run.  *)
(* So the inductive invariants of the first part speak of what is left of  *)
(* the sequence: which accesses may still come, and what has to be true    *)
(* until they do.                                                          *)
(***************************************************************************)
EXTENDS TagGeometry, AppOutput, SequenceTheorems, TLAPS

\* What a command may be made of with dynamic and with static positions, once the
\* first has been switched on.
Switched == Accesses \ {"use"}
DynamicAccesses == Accesses \ {"live static", "do not use"}
StaticAccesses == Accesses \ {"use", "init calc", "beacon dynamic", "tell beacon"}

\* Where a sequence stands in switching on, and in switching off.
BeforeUse(s) == Len(s) >= 1 /\ s[1] = "use"
BeforeNotUse(s) ==
  Len(s) >= 3 /\ s[1] = "do not use" /\ s[2] = "do not listen" /\ s[3] = "clear ready"
BeforeNotListen(s) == Len(s) >= 2 /\ s[1] = "do not listen" /\ s[2] = "clear ready"
BeforeClearReady(s) == Len(s) >= 1 /\ s[1] = "clear ready"

-----------------------------------------------------------------------------
LEMMA TailParts ==
  ASSUME NEW s \in Seq(Accesses), s # <<>>
  PROVE  /\ Tail(s) \in Seq(Accesses) /\ Len(Tail(s)) = Len(s) - 1
         /\ Head(s) \in Accesses /\ Head(s) = s[1] /\ Len(s) \in Nat \ {0}
         /\ \A i \in 1 .. Len(s) - 1 : Tail(s)[i] = s[i + 1]
         /\ \A X \in SUBSET Accesses :
              s \in Seq(X) <=> Head(s) \in X /\ Tail(s) \in Seq(X)
<1>1. /\ Tail(s) \in Seq(Accesses) /\ Len(Tail(s)) = Len(s) - 1
      /\ Head(s) \in Accesses /\ Head(s) = s[1] /\ Len(s) \in Nat \ {0}
      /\ \A i \in 1 .. Len(s) - 1 : Tail(s)[i] = s[i + 1]
  OBVIOUS
<1>2. ASSUME NEW X \in SUBSET Accesses, s \in Seq(X) PROVE Head(s) \in X /\ Tail(s) \in Seq(X)
  BY <1>2
<1>3. ASSUME NEW X \in SUBSET Accesses, Head(s) \in X, Tail(s) \in Seq(X) PROVE s \in Seq(X)
  <2>1. \A i \in 1 .. Len(s) : s[i] \in X
    BY <1>1, <1>3, ElementOfSeq
  <2> QED BY <1>1, <2>1
<1> QED BY <1>1, <1>2, <1>3

LEMMA HeadJoined ==
  ASSUME NEW X, NEW s \in Seq(X), NEW t \in Seq(X), s # <<>>
  PROVE  Head(s \o t) = Head(s)
OBVIOUS

LEMMA SkippedOne ==
  ASSUME NEW X, NEW s \in Seq(X), s # <<>>
  PROVE  SubSeq(s, 1 + 1, Len(s)) = Tail(s)
<1>1. Len(s) \in Nat \ {0} /\ Tail(s) \in Seq(X) /\ Len(Tail(s)) = Len(s) - 1
      /\ \A i \in 1 .. Len(s) - 1 : Tail(s)[i] = s[i + 1]
   OBVIOUS
<1>2. SubSeq(s, 2, Len(s)) \in Seq(X) /\ Len(SubSeq(s, 2, Len(s))) = Len(s) - 1
      /\ \A i \in 1 .. Len(s) - 1 : SubSeq(s, 2, Len(s))[i] = s[i + 1]
  <2>1. SubSeq(s, 2, Len(s)) \in Seq(X)
     BY <1>1, SubSeqProperties
  <2>2. Len(SubSeq(s, 2, Len(s))) = Len(s) - 1
     BY <1>1, SubSeqProperties
  <2>3. \A i \in 1 .. Len(s) - 1 : SubSeq(s, 2, Len(s))[i] = s[i + 1]
     BY <1>1, SubSeqProperties
  <2> QED BY <2>1, <2>2, <2>3
<1>3. SubSeq(s, 2, Len(s)) = Tail(s)
  BY <1>1, <1>2, SeqEqual
<1> QED BY <1>3

LEMMA SkipParts ==
  ASSUME NEW X \in SUBSET Accesses, NEW s \in Seq(X), NEW n \in Nat
  PROVE  SubSeq(s, n + 1, Len(s)) \in Seq(X)
OBVIOUS

LEMMA Joined ==
  ASSUME NEW X, NEW s \in Seq(X), NEW t \in Seq(X)
  PROVE  /\ s \o t \in Seq(X) /\ <<>> \in Seq(X)
         /\ BeforeUse(s) => BeforeUse(s \o t) /\ Tail(s \o t) = Tail(s) \o t
         /\ BeforeNotUse(s) => BeforeNotUse(s \o t)
<1> DEFINE r == s \o t
<1>1. /\ r \in Seq(X) /\ Len(r) = Len(s) + Len(t) /\ Len(s) \in Nat /\ Len(t) \in Nat
      /\ \A i \in 1 .. Len(s) : r[i] = s[i]
  BY ConcatProperties
<1>2. <<>> \in Seq(X)
  OBVIOUS
<1>3. s # <<>> => Tail(s \o t) = Tail(s) \o t
  OBVIOUS
<1> HIDE DEF r
<1>4. BeforeUse(s) => BeforeUse(r) /\ s # <<>>
  <2>1. Len(s) >= 1 => s # <<>>
    OBVIOUS
  <2>2. BeforeUse(s) => BeforeUse(r)
    BY <1>1 DEF BeforeUse
  <2> QED BY <2>1, <2>2 DEF BeforeUse
<1>5. ASSUME BeforeNotUse(s) PROVE BeforeNotUse(r)
  <2>. DEFINE m == Len(s)
             n == Len(t)
             k == Len(r)
  <2>0. m \in Nat /\ n \in Nat /\ k = m + n /\ m >= 3
    BY <1>1, <1>5 DEF BeforeNotUse
  <2>1. 1 \in 1 .. Len(s) /\ 2 \in 1 .. Len(s) /\ 3 \in 1 .. Len(s) /\ Len(r) >= 3
    <3> HIDE DEF m, n, k
    <3>1. 1 \in 1 .. m /\ 2 \in 1 .. m /\ 3 \in 1 .. m /\ k >= 3
      BY <2>0
    <3> QED BY <3>1 DEF m, k
  <2>2. r[1] = s[1] /\ r[2] = s[2] /\ r[3] = s[3]
    BY <1>1, <2>1
  <2> QED BY <1>5, <2>1, <2>2 DEF BeforeNotUse
<1> QED BY <1>1, <1>2, <1>3, <1>4, <1>5 DEF r

LEMMA Single ==
  ASSUME NEW X, NEW x \in X
  PROVE  <<x>> \in Seq(X) /\ <<>> \in Seq(X)
OBVIOUS

LEMMA Pieces ==
  /\ <<>> \in Seq(DynamicAccesses \cap StaticAccesses \cap Switched)
  /\ ClearingLive \in Seq(DynamicAccesses \cap StaticAccesses \cap Switched)
  /\ RuntimeConfig \in Seq(DynamicAccesses \cap Switched)
  /\ SwitchOff \in Seq(StaticAccesses)
<1>. USE DEF DynamicAccesses, StaticAccesses, Switched, Accesses
<1>1. <<>> \in Seq(DynamicAccesses \cap StaticAccesses \cap Switched)
  OBVIOUS
<1>2. ClearingLive \in Seq(DynamicAccesses \cap StaticAccesses \cap Switched)
  BY DEF ClearingLive, Clearing
<1>3. RuntimeConfig \in Seq(DynamicAccesses \cap Switched)
  BY DEF RuntimeConfig
<1>4. SwitchOff \in Seq(StaticAccesses)
  BY DEF SwitchOff, Clearing
<1> QED BY <1>1, <1>2, <1>3, <1>4

LEMMA TransactionParts ==
  ASSUME NEW p \in Params
  PROVE  /\ p.dyn => Transaction(p) \in Seq(DynamicAccesses \cap Switched)
         /\ ~p.dyn => Transaction(p) \in Seq(StaticAccesses)
<1>. USE DEF DynamicAccesses, StaticAccesses, Switched, Accesses
<1>1. <<"beacon dynamic">> \in Seq(DynamicAccesses \cap Switched)
  OBVIOUS
<1>2. <<"beacon static", "live static", "request reinit">> \in Seq(StaticAccesses)
  OBVIOUS
<1> QED BY <1>1, <1>2 DEF Transaction

LEMMA SwitchOnParts ==
  /\ SwitchOn \in Seq(DynamicAccesses)
  /\ use => SwitchOn = <<>>
  /\ ~use => /\ BeforeUse(SwitchOn)
             /\ Tail(SwitchOn) \in Seq(DynamicAccesses \cap Switched)
<1>1. CASE use
  BY <1>1, Pieces DEF SwitchOn
<1>2. CASE ~use
  <2>. DEFINE A == DynamicAccesses \cap Switched
              rest == ClearingLive \o RuntimeConfig \o <<"listen">>
  <2>1. ClearingLive \in Seq(A) /\ RuntimeConfig \in Seq(A) /\ <<"listen">> \in Seq(A)
    <3>1. DynamicAccesses \cap StaticAccesses \cap Switched \subseteq A
      OBVIOUS
    <3>2. "listen" \in A
      BY DEF DynamicAccesses, Switched, Accesses
    <3> HIDE DEF A
    <3>3. <<"listen">> \in Seq(A)
      BY <3>2
    <3>4. ClearingLive \in Seq(A)
      BY <3>1, Pieces, SeqMonotonic
    <3> QED BY <3>3, <3>4, Pieces DEF A
  <2>2. rest \in Seq(A)
    BY <2>1
  <2>3. SwitchOn = <<"use">> \o rest
    BY <1>2, <2>1 DEF SwitchOn
  <2>4. A \subseteq DynamicAccesses /\ "use" \in DynamicAccesses
    BY DEF DynamicAccesses, Accesses
  <2> HIDE DEF rest, A
  <2>5. rest \in Seq(DynamicAccesses) /\ <<"use">> \in Seq(DynamicAccesses)
    BY <2>2, <2>4, SeqMonotonic
  <2>6. SwitchOn \in Seq(DynamicAccesses) /\ Tail(SwitchOn) = rest
    BY <2>3, <2>5, ConcatProperties
  <2>7. BeforeUse(SwitchOn)
    BY <2>3, <2>5 DEF BeforeUse
  <2> QED BY <1>2, <2>2, <2>6, <2>7 DEF A
<1> QED BY <1>1, <1>2

LEMMA SetsOfAccesses ==
  /\ DynamicAccesses \subseteq Accesses /\ StaticAccesses \subseteq Accesses
  /\ DynamicAccesses \cap Switched \subseteq DynamicAccesses
  /\ DynamicAccesses \cap StaticAccesses \cap Switched \subseteq StaticAccesses
  /\ DynamicAccesses \cap StaticAccesses \cap Switched \subseteq DynamicAccesses \cap Switched
  /\ StaticAccesses \subseteq Switched
BY DEF DynamicAccesses, StaticAccesses, Switched, Accesses

\* What a command is made of while positions are dynamic.
LEMMA DynamicProgram ==
  ASSUME NEW kind \in Kinds \ {"dynamic off"}, NEW p \in Params, p.dyn,
         use \/ kind = "dynamic on"
  PROVE  LET s == Program(kind, p)
             B == DynamicAccesses \cap Switched
         IN  /\ s \in Seq(DynamicAccesses)
             /\ use => s \in Seq(B)
             /\ ~use => BeforeUse(s) /\ Tail(s) \in Seq(B)
<1>. DEFINE s == Program(kind, p)
            B == DynamicAccesses \cap Switched
            t == Transaction(p)
            b == <<"clear beacon">>
<1>1. /\ t \in Seq(B) /\ RuntimeConfig \in Seq(B) /\ b \in Seq(B)
      /\ ClearingLive \in Seq(B) /\ <<>> \in Seq(B)
  <2>1. "clear beacon" \in B
    BY DEF DynamicAccesses, Switched, Accesses
  <2>2. ClearingLive \in Seq(B)
    BY Pieces, SetsOfAccesses, SeqMonotonic
  <2>3. t \in Seq(B) /\ RuntimeConfig \in Seq(B)
    BY Pieces, TransactionParts
  <2>4. b \in Seq(B) /\ <<>> \in Seq(B)
    <3> HIDE DEF B
    <3> QED BY <2>1, Single
  <2> HIDE DEF B, b
  <2> QED BY <2>2, <2>3, <2>4
<1>2. B \subseteq DynamicAccesses
  BY SetsOfAccesses
<1>3. CASE use
  <2>1. SwitchOn = <<>>
    BY <1>3, SwitchOnParts
  <2>2. s \in {<<>> \o t, t, RuntimeConfig \o b, ClearingLive, <<>> \o RuntimeConfig \o b}
    BY <2>1 DEF Program, Kinds
  <2> HIDE DEF B, s, t, b
  <2>3. /\ <<>> \o t \in Seq(B) /\ RuntimeConfig \o b \in Seq(B)
        /\ <<>> \o RuntimeConfig \in Seq(B)
    BY <1>1, Joined
  <2>4. <<>> \o RuntimeConfig \o b \in Seq(B)
    BY <1>1, <2>3, Joined
  <2>5. s \in Seq(B)
    BY <1>1, <2>2, <2>3, <2>4
  <2>6. s \in Seq(DynamicAccesses)
    BY <1>2, <2>5, SeqMonotonic
  <2> QED BY <1>3, <2>5, <2>6 DEF B, s
<1>4. CASE ~use
  <2> DEFINE u == SwitchOn
  <2>1. s = u \o t
    BY <1>4 DEF Program
  <2>2. u \in Seq(DynamicAccesses) /\ BeforeUse(u) /\ Tail(u) \in Seq(B)
    BY <1>4, SwitchOnParts
  <2> HIDE DEF B, s, t, u
  <2>3. t \in Seq(DynamicAccesses)
    BY <1>1, <1>2, SeqMonotonic
  <2>5. s \in Seq(DynamicAccesses) /\ BeforeUse(s) /\ Tail(s) = Tail(u) \o t
    BY <2>1, <2>2, <2>3, Joined
  <2> DEFINE v == Tail(u)
  <2>6. v \in Seq(B)
    BY <2>2
  <2> HIDE DEF v
  <2>7. v \o t \in Seq(B)
    BY <1>1, <2>6, Joined
  <2> QED BY <1>4, <2>5, <2>7 DEF B, s, v
<1> QED BY <1>3, <1>4

\* What a command is made of while positions are static.
LEMMA StaticProgram ==
  ASSUME NEW kind \in {"commit", "disable", "enable"}, NEW p \in Params, ~p.dyn
  PROVE  Program(kind, p) \in Seq(StaticAccesses)
<1>1. Transaction(p) \in Seq(StaticAccesses) /\ SwitchOff \in Seq(StaticAccesses)
  BY Pieces, TransactionParts
<1>2. ClearingLive \in Seq(StaticAccesses)
  BY Pieces, SetsOfAccesses, SeqMonotonic
<1>3. Program(kind, p) \in {Transaction(p), ClearingLive, SwitchOff \o Transaction(p)}
  BY DEF Program
<1>4. SwitchOff \o Transaction(p) \in Seq(StaticAccesses)
  BY <1>1, Joined
<1> QED BY <1>1, <1>2, <1>3, <1>4

LEMMA SwitchOffBegins == BeforeNotUse(SwitchOff)
<1> DEFINE x == <<"do not use", "do not listen">>
           y == Clearing
<1>1. x \in Seq(Accesses) /\ y \in Seq(Accesses)
  BY DEF Clearing, Accesses
<1>2. Len(x) = 2 /\ Len(y) = 4 /\ x[1] = "do not use" /\ x[2] = "do not listen"
      /\ y[1] = "clear ready"
  BY DEF Clearing
<1>3. SwitchOff = x \o y
  BY DEF SwitchOff
<1> HIDE DEF x, y
<1>4. Len(x \o y) = Len(x) + Len(y)
      /\ \A i \in 1 .. Len(x) + Len(y) :
           (x \o y)[i] = IF i <= Len(x) THEN x[i] ELSE y[i - Len(x)]
  BY <1>1, ConcatProperties
<1> DEFINE z == x \o y
           m == Len(x)
           n == Len(y)
<1>5. /\ Len(z) = m + n /\ m = 2 /\ n = 4
      /\ \A i \in 1 .. m + n : z[i] = IF i <= m THEN x[i] ELSE y[i - m]
  BY <1>2, <1>4
<1> HIDE DEF z, m, n
<1>6. Len(z) = 6 /\ z[1] = x[1] /\ z[2] = x[2] /\ z[3] = y[1]
  BY <1>5
<1>7. BeforeNotUse(z)
  <2>1. Len(z) >= 3
    BY <1>6
  <2>2. z[1] = "do not use" /\ z[2] = "do not listen" /\ z[3] = "clear ready"
    BY <1>2, <1>6
  <2> QED BY <2>1, <2>2 DEF BeforeNotUse
<1> QED BY <1>3, <1>7 DEF z

LEMMA RollbackParts ==
  ASSUME NEW kind, NEW p \in Params
  PROVE  /\ p.dyn /\ use => Rollback(kind, p) \in Seq(DynamicAccesses \cap Switched)
         /\ ~p.dyn => /\ Rollback(kind, p) \in Seq(StaticAccesses)
                      /\ BeforeNotUse(Rollback(kind, p))
<1>1. ASSUME p.dyn, use PROVE Rollback(kind, p) \in Seq(DynamicAccesses \cap Switched)
  <2> DEFINE B == DynamicAccesses \cap Switched
             t == Transaction(p)
             a == AfterAnchors(p)
  <2>1. t \in Seq(B)
    BY <1>1, TransactionParts
  <2>2. ClearingLive \in Seq(B) /\ <<>> \in Seq(B)
    BY Pieces, SetsOfAccesses, SeqMonotonic
  <2>3. a \in Seq(B)
    BY <2>2 DEF AfterAnchors
  <2>4. Rollback(kind, p) = <<>> \o t \o a
    BY <1>1, SwitchOnParts DEF Rollback
  <2> HIDE DEF B, t, a
  <2>5. <<>> \o t \in Seq(B)
    BY <2>1, <2>2, Joined
  <2>6. <<>> \o t \o a \in Seq(B)
    BY <2>3, <2>5, Joined
  <2> QED BY <2>4, <2>6 DEF B
<1>2. ASSUME ~p.dyn
      PROVE  Rollback(kind, p) \in Seq(StaticAccesses) /\ BeforeNotUse(Rollback(kind, p))
  <2> DEFINE B == StaticAccesses
             b == <<"beacon static">>
             t == IF kind \in {"dynamic on", "dynamic off"} /\ ~p.dyn
                  THEN b ELSE Transaction(p)
             a == AfterAnchors(p)
             u == SwitchOff
  <2>1. b \in Seq(B)
    BY Single DEF StaticAccesses, Accesses
  <2>2. t \in Seq(B)
    BY <1>2, <2>1, TransactionParts
  <2>3. ClearingLive \in Seq(B) /\ <<>> \in Seq(B)
    BY Pieces, SetsOfAccesses, SeqMonotonic
  <2>4. a \in Seq(B) /\ u \in Seq(B) /\ BeforeNotUse(u)
    BY <2>3, Pieces, SwitchOffBegins DEF AfterAnchors
  <2>5. Rollback(kind, p) = u \o t \o a
    BY <1>2 DEF Rollback
  <2> HIDE DEF B, b, t, a, u
  <2>6. u \o t \in Seq(B) /\ BeforeNotUse(u \o t)
    BY <2>2, <2>4, Joined
  <2>7. u \o t \o a \in Seq(B) /\ BeforeNotUse(u \o t \o a)
    BY <2>4, <2>6, Joined
  <2> QED BY <2>5, <2>7 DEF B
<1> QED BY <1>1, <1>2

-----------------------------------------------------------------------------
\* The components of TypeOK that are records.
CmdType == [todo : Seq(Accesses), kind : Kinds \cup {"none", "rollback"}, prev : Params,
            given : Seq(Commands), anchors : Geometries]
LoopType == [pc : LoopSteps, anchors : Geometries]
EstType == [pc : EstSteps, first : BOOLEAN, geometry : Geometries,
            rows : SUBSET Geometries]

LEMMA GeometryTypes ==
  /\ None \in Geometries /\ Dynamic \in Geometries /\ Statics \subseteq Geometries
  /\ None # Dynamic /\ None \notin Statics /\ Dynamic \notin Statics
  /\ Commands \subseteq Kinds
BY GeometryAssumption DEF Geometries

LEMMA Doings ==
  ASSUME TypeOK, NEW access, Doing(access)
  PROVE  /\ cmd.todo # <<>> /\ Head(cmd.todo) = access
         /\ cmd' \in CmdType
         /\ cmd'.todo = Tail(cmd.todo) /\ cmd'.kind = cmd.kind /\ cmd'.prev = cmd.prev
         /\ cmd'.given = cmd.given /\ cmd'.anchors = cmd.anchors
         /\ param' = param /\ loop' = loop /\ est' = est
<1>1. cmd \in CmdType
  BY DEF TypeOK, CmdType
<1>2. cmd.todo # <<>> /\ Head(cmd.todo) = access /\ cmd' = [cmd EXCEPT !.todo = Tail(cmd.todo)]
      /\ param' = param /\ loop' = loop /\ est' = est
  BY DEF Doing, Idle
<1>3. cmd.todo \in Seq(Accesses)
  BY <1>1 DEF CmdType
<1>4. Tail(cmd.todo) \in Seq(Accesses)
  BY <1>2, <1>3
<1> QED BY <1>1, <1>2, <1>4 DEF CmdType

LEMMA Skippings ==
  ASSUME TypeOK, NEW access, NEW n \in Nat, Skipping(access, n)
  PROVE  /\ cmd.todo # <<>> /\ Head(cmd.todo) = access
         /\ cmd' \in CmdType
         /\ cmd'.todo = SubSeq(cmd.todo, n + 1, Len(cmd.todo)) /\ cmd'.kind = cmd.kind
         /\ cmd'.prev = cmd.prev /\ cmd'.given = cmd.given /\ cmd'.anchors = cmd.anchors
         /\ UNCHANGED <<param, dynamics, shared, loop, est>>
<1>1. cmd \in CmdType
  BY DEF TypeOK, CmdType
<1>2. cmd.todo # <<>> /\ Head(cmd.todo) = access
      /\ cmd' = [cmd EXCEPT !.todo = SubSeq(cmd.todo, n + 1, Len(cmd.todo))]
      /\ UNCHANGED <<param, dynamics, shared, loop, est>>
  BY DEF Skipping, Idle
<1>3. SubSeq(cmd.todo, n + 1, Len(cmd.todo)) \in Seq(Accesses)
  BY <1>1, SkipParts DEF CmdType
<1> QED BY <1>1, <1>2, <1>3 DEF CmdType

LEMMA StoredParams ==
  ASSUME TypeOK, NEW kind \in Kinds, NEW p \in Stored(kind)
  PROVE  /\ p \in Params
         /\ kind = "dynamic on" => p.dyn /\ p.static = param.static /\ p.enable = param.enable
         /\ kind = "dynamic off" => ~p.dyn
         /\ kind \notin {"dynamic on", "dynamic off"} => p.dyn = param.dyn
         /\ kind = "layout" => p = param /\ param.dyn
         /\ kind = "commit" => p.enable = param.enable
         /\ kind = "disable" => ~p.enable /\ p.static = param.static
         /\ kind = "enable" => p.enable /\ p.static = param.static
<1>1. param \in Params
  BY DEF TypeOK
<1>2. CASE kind = "dynamic on"
  BY <1>1, <1>2 DEF Stored, Params
<1>3. CASE kind = "dynamic off"
  BY <1>1, <1>3 DEF Stored, Params
<1>4. CASE kind = "commit"
  BY <1>1, <1>4 DEF Stored, Params
<1>5. CASE kind = "layout"
  BY <1>1, <1>5 DEF Stored, Params
<1>6. CASE kind = "disable"
  BY <1>1, <1>6 DEF Stored, Params
<1>7. CASE kind = "enable"
  BY <1>1, <1>7 DEF Stored, Params
<1> QED BY <1>2, <1>3, <1>4, <1>5, <1>6, <1>7 DEF Kinds

\* Every program is made of accesses.
LEMMA ProgramTypes ==
  ASSUME NEW p \in Params
  PROVE  /\ \A kind \in Kinds : Program(kind, p) \in Seq(Accesses)
         /\ \A kind \in Kinds \cup {"none", "rollback"} : Rollback(kind, p) \in Seq(Accesses)
         /\ AfterAnchors(p) \in Seq(Accesses)
<1> DEFINE A == Accesses
           t == Transaction(p)
           on == SwitchOn
           off == SwitchOff
           run == RuntimeConfig
           clear == ClearingLive
           b == <<"clear beacon">>
           c == <<"beacon static">>
           after == AfterAnchors(p)
<1>1. /\ on \in Seq(A) /\ off \in Seq(A) /\ run \in Seq(A) /\ clear \in Seq(A)
      /\ t \in Seq(A) /\ <<>> \in Seq(A)
  <2>1. /\ DynamicAccesses \subseteq A /\ StaticAccesses \subseteq A
        /\ DynamicAccesses \cap Switched \subseteq A
        /\ DynamicAccesses \cap StaticAccesses \cap Switched \subseteq A
    BY SetsOfAccesses
  <2> HIDE DEF t, A
  <2>2. t \in Seq(A)
    BY <2>1, TransactionParts, SeqMonotonic DEF t, Params
  <2> QED BY <2>1, <2>2, Pieces, SwitchOnParts, SeqMonotonic
<1>2. b \in Seq(A) /\ c \in Seq(A)
  <2>1. "clear beacon" \in A /\ "beacon static" \in A
    BY DEF Accesses
  <2> HIDE DEF A
  <2> QED BY <2>1, Single
<1>3. after \in Seq(A)
  BY <1>1 DEF AfterAnchors
<1> HIDE DEF A, t, on, off, run, clear, b, c, after
<1>4. /\ on \o t \in Seq(A) /\ t \o off \in Seq(A) /\ run \o b \in Seq(A)
      /\ off \o t \in Seq(A) /\ on \o run \in Seq(A) /\ on \o c \in Seq(A) /\ off \o c \in Seq(A)
  BY <1>1, <1>2, Joined
<1>5. /\ on \o run \o b \in Seq(A)
      /\ on \o c \o after \in Seq(A) /\ off \o c \o after \in Seq(A)
      /\ on \o t \o after \in Seq(A) /\ off \o t \o after \in Seq(A)
  BY <1>2, <1>3, <1>4, Joined
<1>6. ASSUME NEW kind \in Kinds PROVE Program(kind, p) \in Seq(A)
  <2>1. Program(kind, p) \in {on \o t, t \o off, t, run \o b, clear, on \o run \o b, off \o t}
    BY DEF Program, Kinds, on, t, off, run, b, clear
  <2> QED BY <1>1, <1>4, <1>5, <2>1
<1>7. ASSUME NEW kind \in Kinds \cup {"none", "rollback"}
      PROVE  Rollback(kind, p) \in Seq(A)
  <2>1. Rollback(kind, p) \in {on \o c \o after, off \o c \o after,
                               on \o t \o after, off \o t \o after}
    BY DEF Rollback, on, t, off, c, after
  <2> QED BY <1>5, <2>1
<1> QED BY <1>3, <1>6, <1>7 DEF A, after

LEMMA TypesInit == Init => TypeOK
<1> SUFFICES ASSUME Init PROVE TypeOK
  OBVIOUS
<1>1. param \in Params /\ param.dyn \in BOOLEAN /\ param.static \in Statics
  BY DEF Init, Params
<1>2. live \in Geometries /\ beacon = live
  BY <1>1, GeometryTypes DEF Init
<1>3. cmd \in CmdType
  <2>1. <<>> \in Seq(Accesses) /\ <<>> \in Seq(Commands)
    OBVIOUS
  <2> QED BY <1>1, <2>1, GeometryTypes DEF Init, CmdType
<1>4. est \in EstType /\ loop \in LoopType
  BY GeometryTypes DEF Init, EstType, LoopType, EstSteps, LoopSteps
<1>5. reinit \in [static : BOOLEAN, dynamic : BOOLEAN]
  BY <1>1 DEF Init
<1> QED BY <1>1, <1>2, <1>3, <1>4, <1>5 DEF Init, TypeOK, CmdType, EstType, LoopType

LEMMA SetParamTypes ==
  ASSUME TypeOK, NEW kind \in Commands, NEW p \in Stored(kind), SetParam(kind, p)
  PROVE  /\ TypeOK'
         /\ cmd.todo = <<>> /\ param' = p
         /\ cmd'.todo = Program(kind, p) /\ cmd'.kind = kind /\ cmd'.prev = param
         /\ cmd'.given = Append(cmd.given, kind)
<1>1. kind \in Kinds /\ p \in Params /\ param \in Params
  BY GeometryTypes, StoredParams DEF TypeOK
<1>2. /\ cmd.todo = <<>> /\ param' = p
      /\ cmd' = [cmd EXCEPT !.todo = Program(kind, p), !.kind = kind, !.prev = param,
                            !.given = Append(cmd.given, kind)]
      /\ UNCHANGED <<dynamics, shared, loop, est>>
  BY DEF SetParam, Idle
<1>3. Program(kind, p) \in Seq(Accesses)
  BY <1>1, ProgramTypes
<1>4. cmd \in CmdType
  BY DEF TypeOK, CmdType
<1>5. Append(cmd.given, kind) \in Seq(Commands)
  BY <1>4 DEF CmdType
<1>6. /\ cmd' \in CmdType
      /\ cmd'.todo = Program(kind, p) /\ cmd'.kind = kind /\ cmd'.prev = param
      /\ cmd'.given = Append(cmd.given, kind)
  BY <1>1, <1>2, <1>3, <1>4, <1>5 DEF CmdType
<1> QED BY <1>1, <1>2, <1>6 DEF TypeOK, CmdType, dynamics, shared

LEMMA FailsParts ==
  ASSUME TypeOK, Fails
  PROVE  /\ cmd.todo # <<>> /\ cmd' \in CmdType /\ cmd'.kind = "rollback"
         /\ cmd'.prev = cmd.prev /\ cmd'.given = cmd.given
         /\ cmd.kind # "rollback" => /\ param' = cmd.prev
                                     /\ cmd'.todo = Rollback(cmd.kind, cmd.prev)
         /\ cmd.kind = "rollback" => /\ param' = param
                                     /\ cmd'.todo = AfterAnchors(cmd.prev)
         /\ UNCHANGED <<dynamics, shared, loop, est>>
<1>1. cmd \in CmdType /\ None \in Geometries
  BY GeometryTypes DEF TypeOK, CmdType
<1>2. cmd.todo # <<>> /\ UNCHANGED <<dynamics, shared, loop, est>>
  BY DEF Fails, Idle
<1>3. /\ Rollback(cmd.kind, cmd.prev) \in Seq(Accesses)
      /\ AfterAnchors(cmd.prev) \in Seq(Accesses)
  BY <1>1, ProgramTypes DEF CmdType
<1>4. CASE cmd.kind # "rollback"
  <2>1. /\ param' = cmd.prev
        /\ cmd' = [cmd EXCEPT !.todo = Rollback(cmd.kind, cmd.prev), !.anchors = None,
                              !.kind = "rollback"]
    BY <1>4 DEF Fails
  <2> QED BY <1>1, <1>2, <1>3, <1>4, <2>1 DEF CmdType
<1>5. CASE cmd.kind = "rollback"
  <2>1. /\ param' = param
        /\ cmd' = [cmd EXCEPT !.todo = AfterAnchors(cmd.prev), !.anchors = None]
    BY <1>5 DEF Fails
  <2> QED BY <1>1, <1>2, <1>3, <1>5, <2>1 DEF CmdType
<1> QED BY <1>4, <1>5

LEMMA AccessTypes == ASSUME TypeOK, Access PROVE TypeOK'
<1> USE GeometryTypes
<1>1. CASE SwitchUse
  <2>1. PICK on \in BOOLEAN :
          \/ Doing(IF on THEN "use" ELSE "do not use") /\ use' = on /\ UNCHANGED listening
          \/ /\ Doing(IF on THEN "listen" ELSE "do not listen") /\ listening' = on
             /\ UNCHANGED use
    BY <1>1 DEF SwitchUse
  <2>2. cmd' \in CmdType /\ param' = param /\ loop' = loop /\ est' = est
    BY <2>1, Doings
  <2>3. use' \in BOOLEAN /\ listening' \in BOOLEAN
    BY <2>1 DEF TypeOK
  <2>4. UNCHANGED <<calc, shared>>
    BY <1>1 DEF SwitchUse
  <2> QED BY <2>2, <2>3, <2>4 DEF TypeOK, CmdType, shared
<1>2. CASE ClearFlags
  <2>1. cmd' \in CmdType /\ param' = param /\ loop' = loop /\ est' = est
    BY <1>2, Doings DEF ClearFlags
  <2>2. ready' \in BOOLEAN /\ reinit' \in [static : BOOLEAN, dynamic : BOOLEAN]
        /\ holdoff' \in {"none", "future", "past"}
    BY <1>2 DEF ClearFlags, TypeOK
  <2> QED BY <1>2, <2>1, <2>2 DEF TypeOK, CmdType, ClearFlags, dynamics
<1>3. CASE ResetCalc
  <2>1. cmd' \in CmdType /\ param' = param /\ loop' = loop /\ est' = est
    BY <1>3, Doings DEF ResetCalc
  <2> QED BY <1>3, <2>1 DEF TypeOK, CmdType, ResetCalc, shared
<1>4. CASE ClearLive
  <2>1. cmd' \in CmdType /\ param' = param /\ loop' = loop /\ est' = est
    BY <1>4, Doings DEF ClearLive
  <2> QED BY <1>4, <2>1 DEF TypeOK, CmdType, ClearLive, dynamics
<1>5. CASE ClearBeacon
  <2>1. cmd' \in CmdType /\ param' = param /\ loop' = loop /\ est' = est
    BY <1>5, Doings DEF ClearBeacon
  <2> QED BY <1>5, <2>1 DEF TypeOK, CmdType, ClearBeacon, dynamics
<1>6. CASE BusyClear
  <2>1. Len(RuntimeConfig) \in Nat /\ 1 \in Nat
    BY Pieces
  <2>2. ASSUME NEW access, NEW n \in Nat, Skipping(access, n) PROVE TypeOK'
    BY <2>2, Skippings DEF TypeOK, CmdType, dynamics, shared
  <2>3. CASE \E access \in {"reset calc", "clear live", "clear beacon"} : Skipping(access, 1)
    BY <2>1, <2>2, <2>3
  <2>4. CASE Skipping("init calc", Len(RuntimeConfig))
    BY <2>1, <2>2, <2>4
  <2> QED BY <1>6, <2>3, <2>4 DEF BusyClear
<1>7. CASE BeaconStatic
  <2>1. cmd' \in CmdType /\ param' = param /\ loop' = loop /\ est' = est
    BY <1>7, Doings DEF BeaconStatic
  <2>2. beacon' \in Geometries
    BY <1>7 DEF BeaconStatic, TypeOK, Params
  <2> QED BY <1>7, <2>1, <2>2 DEF TypeOK, CmdType, BeaconStatic, dynamics
<1>8. CASE LiveStatic
  <2>1. cmd' \in CmdType /\ param' = param /\ loop' = loop /\ est' = est
    BY <1>8, Doings DEF LiveStatic
  <2>2. live' \in Geometries
    BY <1>8 DEF LiveStatic, TypeOK, Params
  <2> QED BY <1>8, <2>1, <2>2 DEF TypeOK, CmdType, LiveStatic, dynamics
<1>9. CASE RequestReinit
  <2>1. cmd' \in CmdType /\ param' = param /\ loop' = loop /\ est' = est
    BY <1>9, Doings DEF RequestReinit
  <2>2. reinit' \in [static : BOOLEAN, dynamic : BOOLEAN]
    BY <1>9 DEF RequestReinit, TypeOK
  <2> QED BY <1>9, <2>1, <2>2 DEF TypeOK, CmdType, RequestReinit, dynamics
<1>10. CASE BeaconDynamic
  <2>1. cmd \in CmdType /\ cmd.todo # <<>> /\ live \in Geometries
    BY <1>10 DEF TypeOK, CmdType, BeaconDynamic, Idle
  <2>2. Tail(cmd.todo) \in Seq(Accesses)
    BY <2>1 DEF CmdType
  <2>3. <<"tell beacon">> \in Seq(Accesses) /\ <<"clear beacon">> \in Seq(Accesses)
    BY Single DEF Accesses
  <2>4. /\ <<"tell beacon">> \o Tail(cmd.todo) \in Seq(Accesses)
        /\ <<"clear beacon">> \o Tail(cmd.todo) \in Seq(Accesses)
    BY <2>2, <2>3, Joined
  <2>5. cmd' \in CmdType
    BY <1>10, <2>1, <2>4 DEF BeaconDynamic, CmdType
  <2> QED BY <1>10, <2>5 DEF TypeOK, CmdType, BeaconDynamic, dynamics, shared
<1>11. CASE TellBeacon
  <2>1. cmd \in CmdType /\ cmd.todo # <<>>
    BY <1>11 DEF TypeOK, CmdType, TellBeacon, Idle
  <2>2. Tail(cmd.todo) \in Seq(Accesses)
    BY <2>1 DEF CmdType
  <2>3. cmd' \in CmdType /\ beacon' \in Geometries
    BY <1>11, <2>1, <2>2 DEF TellBeacon, CmdType
  <2> QED BY <1>11, <2>3 DEF TypeOK, CmdType, TellBeacon, dynamics
<1>12. CASE Fails
  <2>1. /\ cmd' \in CmdType /\ UNCHANGED <<dynamics, shared, loop, est>>
        /\ param' \in {cmd.prev, param}
    BY <1>12, FailsParts
  <2> QED BY <2>1 DEF TypeOK, CmdType, dynamics, shared
<1> QED BY <1>1, <1>2, <1>3, <1>4, <1>5, <1>6, <1>7, <1>8, <1>9, <1>10, <1>11, <1>12
        DEF Access

LEMMA LoopTypes ==
  ASSUME TypeOK, \/ Produce \/ Distances \/ Calculate \/ Publish \/ LoopBusy
                 \/ Announce \/ CopyForBeacon \/ Tell \/ Retract
  PROVE  TypeOK'
<1> USE GeometryTypes
<1>0. loop \in LoopType /\ est \in EstType
  BY DEF TypeOK, LoopType, EstType
<1>a. ASSUME NEW from, NEW to \in LoopSteps, Looping(from, to)
      PROVE  loop' \in LoopType /\ param' = param /\ est' = est /\ cmd' = cmd
  BY <1>0, <1>a DEF Looping, LoopType
<1>b. LoopSteps = {"idle", "publish", "ready", "reinit", "holdoff", "beacon", "tell",
                   "retract", "forget", "unhold", "no beacon"}
  BY DEF LoopSteps
<1>1. CASE Produce
  BY <1>1, <1>a, <1>b DEF Produce, TypeOK, LoopType, dynamics
<1>2. CASE Distances
  BY <1>2, <1>a, <1>b DEF Distances, TypeOK, LoopType, shared
<1>3. CASE Calculate
  BY <1>3, <1>a, <1>b DEF Calculate, TypeOK, LoopType, dynamics
<1>4. CASE Publish
  <2>1. loop' \in LoopType /\ param' = param /\ est' = est /\ cmd' = cmd
    BY <1>4, <1>a, <1>b DEF Publish
  <2> QED BY <1>4, <2>1 DEF Publish, TypeOK, LoopType, dynamics
<1>5. CASE LoopBusy
  <2>1. loop' \in LoopType
    BY <1>5, <1>b DEF LoopBusy, LoopType
  <2>2. UNCHANGED <<param, dynamics, shared, est, cmd>>
    BY <1>5 DEF LoopBusy
  <2> QED BY <2>1, <2>2 DEF TypeOK, LoopType, dynamics, shared
<1>6. CASE Announce
  <2>1. loop' \in LoopType /\ param' = param /\ est' = est /\ cmd' = cmd
    BY <1>6, <1>a, <1>b DEF Announce
  <2>2. ready' \in BOOLEAN /\ reinit' \in [static : BOOLEAN, dynamic : BOOLEAN]
        /\ holdoff' \in {"none", "future", "past"}
    BY <1>6 DEF Announce, TypeOK
  <2> QED BY <1>6, <2>1, <2>2 DEF Announce, TypeOK, LoopType, dynamics
<1>7. CASE CopyForBeacon
  <2>1. loop' \in LoopType
    BY <1>0, <1>7, <1>b DEF CopyForBeacon, TypeOK, LoopType
  <2> QED BY <1>7, <2>1 DEF CopyForBeacon, TypeOK, LoopType, dynamics, shared
<1>8. CASE Tell
  <2>1. loop' \in LoopType
    BY <1>8, <1>b DEF Tell, LoopType
  <2>2. beacon' \in Geometries
    BY <1>0, <1>8 DEF Tell, LoopType
  <2> QED BY <1>8, <2>1, <2>2 DEF Tell, TypeOK, LoopType, dynamics
<1>9. CASE Retract
  <2>1. loop' \in LoopType /\ param' = param /\ est' = est /\ cmd' = cmd
    BY <1>9, <1>a, <1>b DEF Retract
  <2>2. reinit' \in [static : BOOLEAN, dynamic : BOOLEAN]
    BY <1>9 DEF Retract, TypeOK
  <2>3. live' \in Geometries /\ beacon' \in Geometries /\ rows' \subseteq Geometries \ {None}
        /\ holdoff' \in {"none", "future", "past"}
    BY <1>9 DEF Retract, TypeOK
  <2> QED BY <1>9, <2>1, <2>2, <2>3 DEF Retract, TypeOK, LoopType, dynamics
<1> QED BY <1>1, <1>2, <1>3, <1>4, <1>5, <1>6, <1>7, <1>8, <1>9

LEMMA EstTypes ==
  ASSUME TypeOK, \/ Begin \/ ReadHoldoff \/ ResetHoldoff \/ TakeReinit \/ Copy \/ Solve
                 \/ HoldoffPasses
  PROVE  TypeOK'
<1>0. /\ est \in EstType /\ reinit \in [static : BOOLEAN, dynamic : BOOLEAN]
      /\ None \in Geometries /\ live \in Geometries /\ rows \subseteq Geometries
      /\ holdoff \in {"none", "future", "past"}
  BY GeometryTypes DEF TypeOK, EstType
<1>a. {"waiting", "holdoff", "unhold", "reinit", "copy", "solving"} = EstSteps
  BY DEF EstSteps
<1>b. ASSUME est' \in EstType, reinit' \in [static : BOOLEAN, dynamic : BOOLEAN],
             rows' \in {rows, {}}, holdoff' \in {"none", "future", "past"},
             UNCHANGED <<param, dynamics, live, beacon, ready, loop, cmd>>
      PROVE  TypeOK'
  BY <1>b DEF TypeOK, EstType, dynamics
<1>1. CASE Begin
  <2>1. est' \in EstType
    BY <1>0, <1>a, <1>1 DEF Begin, Estimating, EstType
  <2>2. reinit' \in [static : BOOLEAN, dynamic : BOOLEAN]
    BY <1>0, <1>1 DEF Begin
  <2> QED BY <1>0, <1>b, <1>1, <2>1, <2>2 DEF Begin, Estimating
<1>2. CASE ReadHoldoff
  <2>1. est' \in EstType
    BY <1>0, <1>a, <1>2 DEF ReadHoldoff, Estimating, EstType
  <2> QED BY <1>0, <1>b, <1>2, <2>1 DEF ReadHoldoff, Estimating
<1>3. CASE ResetHoldoff
  <2>1. est' \in EstType
    BY <1>0, <1>a, <1>3 DEF ResetHoldoff, Estimating, EstType
  <2> QED BY <1>0, <1>b, <1>3, <2>1 DEF ResetHoldoff, Estimating
<1>4. CASE TakeReinit
  <2>1. est' \in EstType
    <3>1. \/ est' = [est EXCEPT !.pc = "copy", !.first = TRUE]
          \/ est' = [est EXCEPT !.pc = "copy"]
      BY <1>4 DEF TakeReinit
    <3> QED BY <1>0, <1>a, <3>1 DEF EstType
  <2>2. reinit' \in [static : BOOLEAN, dynamic : BOOLEAN]
    BY <1>0, <1>4 DEF TakeReinit
  <2> QED BY <1>0, <1>b, <1>4, <2>1, <2>2 DEF TakeReinit, Estimating
<1>5. CASE Copy
  <2>1. est' \in EstType
    <3>1. CASE est' = [est EXCEPT !.pc = "waiting"]
      BY <1>0, <1>a, <3>1 DEF EstType
    <3>2. CASE est' = [pc |-> "solving", geometry |-> live, rows |-> rows, first |-> FALSE]
      BY <1>0, <1>a, <3>2 DEF EstType
    <3> QED BY <1>5, <3>1, <3>2 DEF Copy
  <2> QED BY <1>0, <1>b, <1>5, <2>1 DEF Copy, Estimating
<1>6. CASE Solve
  <2>1. est' \in EstType
    BY <1>0, <1>a, <1>6 DEF Solve, Estimating, EstType
  <2> QED BY <1>0, <1>b, <1>6, <2>1 DEF Solve, Estimating
<1>7. CASE HoldoffPasses
  BY <1>0, <1>b, <1>7 DEF HoldoffPasses
<1> QED BY <1>1, <1>2, <1>3, <1>4, <1>5, <1>6, <1>7

LEMMA TypesNext == TypeOK /\ [Next]_vars => TypeOK'
<1> SUFFICES ASSUME TypeOK, [Next]_vars PROVE TypeOK'
  OBVIOUS
<1>1. CASE Command
  BY <1>1, SetParamTypes DEF Command
<1>2. CASE Access
  BY <1>2, AccessTypes
<1>3. CASE \/ Produce \/ Distances \/ Calculate \/ Publish \/ LoopBusy
           \/ Announce \/ CopyForBeacon \/ Tell \/ Retract
  BY <1>3, LoopTypes
<1>4. CASE \/ Begin \/ ReadHoldoff \/ ResetHoldoff \/ TakeReinit \/ Copy \/ Solve
           \/ HoldoffPasses
  BY <1>4, EstTypes
<1>5. CASE UNCHANGED vars
  BY <1>5 DEF TypeOK, vars, dynamics, shared
<1> QED BY <1>1, <1>2, <1>3, <1>4, <1>5 DEF Next

\* Every access that a command is made of is one that the tag knows, whatever is
\* refused, skipped or rolled back; rows are only stored for anchors with positions.
\* (estimatorCallback of uwb_tdoa_tag.cpp; SetParam and rollbackParamsAndRuntime of
\* uwb_frontend_littlefs.cpp)
THEOREM TypeCorrect == Spec => []TypeOK
BY TypesInit, TypesNext, PTL DEF Spec

-----------------------------------------------------------------------------
\* Dynamic positions have been asked for.
OnGiven == \E i \in DOMAIN cmd.given : cmd.given[i] = "dynamic on"

\* The radio's task can neither publish nor announce positions,
Fresh == ~use /\ ~ready /\ loop.pc = "idle"
\* or it may do so for the first time, and finds no announcement.
Quiet == ~use /\ (loop.pc = "publish" => ~ready)

\* No command with dynamic positions makes static ones live, or the reverse.
Steps ==
  /\ param.dyn => cmd.todo \in Seq(DynamicAccesses)
  /\ ~param.dyn => cmd.todo \in Seq(StaticAccesses)

\* Switching on begins with "use", and until then the radio's task is as it was
\* at the boot; after it nothing but its undoing switches again.
SwitchedOn ==
  /\ param.dyn => use \/ (BeforeUse(cmd.todo) /\ Fresh)
  /\ \/ cmd.todo \in Seq(Switched)
     \/ BeforeUse(cmd.todo) /\ Tail(cmd.todo) \in Seq(Switched) /\ Fresh
  /\ ~Idle /\ cmd.kind # "rollback" /\ cmd.prev.dyn => use /\ param.dyn
  /\ ~Idle /\ cmd.kind # "rollback" /\ ~cmd.prev.dyn /\ param.dyn => OnGiven
  /\ ~param.dyn /\ ~OnGiven => Fresh

\* Static positions mean that the radio's task publishes for the first time at
\* most, or that the command has yet to stop it and to take back the announcement.
SwitchedOff ==
  ~param.dyn => \/ Quiet
                \/ BeforeNotUse(cmd.todo)
                \/ ~use /\ BeforeNotListen(cmd.todo)
                \/ ~use /\ BeforeClearReady(cmd.todo)

Order == Steps /\ SwitchedOn /\ SwitchedOff

LEMMA OrderByOthers ==
  ASSUME TypeOK, Order, UNCHANGED <<param, use, cmd>>, Fresh => Fresh', Quiet => Quiet'
  PROVE  Order'
BY DEF Order, Steps, SwitchedOn, SwitchedOff, BeforeUse, BeforeNotUse, BeforeNotListen,
       BeforeClearReady, OnGiven, Idle

LEMMA HeadOnly ==
  ASSUME NEW s \in Seq(Accesses), s # <<>>
  PROVE  /\ BeforeUse(s) <=> Head(s) = "use"
         /\ BeforeNotUse(s) => Head(s) = "do not use" /\ BeforeNotListen(Tail(s))
         /\ BeforeNotListen(s) => Head(s) = "do not listen" /\ BeforeClearReady(Tail(s))
         /\ BeforeClearReady(s) <=> Head(s) = "clear ready"
<1> DEFINE t == Tail(s)
           m == Len(s)
           n == Len(t)
<1>1. /\ t \in Seq(Accesses) /\ n = m - 1 /\ m \in Nat \ {0}
      /\ Head(s) = s[1] /\ \A i \in 1 .. m - 1 : t[i] = s[i + 1]
  BY TailParts
<1> HIDE DEF t, m, n
<1>2. m >= 2 => t[1] = s[2] /\ n >= 1
  BY <1>1
<1>3. m >= 3 => t[2] = s[3] /\ n >= 2
  BY <1>1
<1>4. (BeforeUse(s) <=> Head(s) = "use") /\ (BeforeClearReady(s) <=> Head(s) = "clear ready")
  <2>1. Len(s) >= 1 /\ Head(s) = s[1]
    BY <1>1 DEF m
  <2> QED BY <2>1 DEF BeforeUse, BeforeClearReady
<1>5. ASSUME BeforeNotUse(s) PROVE Head(s) = "do not use" /\ BeforeNotListen(t)
  <2>0. m >= 3 /\ s[1] = "do not use" /\ s[2] = "do not listen" /\ s[3] = "clear ready"
    BY <1>5 DEF BeforeNotUse, m
  <2>1. m >= 3 => m >= 2
    BY <1>1
  <2>2. t[1] = "do not listen" /\ t[2] = "clear ready" /\ n >= 2
    BY <1>2, <1>3, <2>0, <2>1
  <2> QED BY <1>1, <2>0, <2>2 DEF BeforeNotListen, n
<1>6. ASSUME BeforeNotListen(s) PROVE Head(s) = "do not listen" /\ BeforeClearReady(t)
  <2>1. m >= 2 /\ s[1] = "do not listen" /\ s[2] = "clear ready"
    BY <1>6 DEF BeforeNotListen, m
  <2>2. t[1] = "clear ready" /\ n >= 1
    BY <1>2, <2>1
  <2> QED BY <1>1, <2>1, <2>2 DEF BeforeClearReady, n
<1> QED BY <1>4, <1>5, <1>6 DEF t

LEMMA EmptyIsBeforeNothing ==
  ~BeforeUse(<<>>) /\ ~BeforeNotUse(<<>>) /\ ~BeforeNotListen(<<>>) /\ ~BeforeClearReady(<<>>)
BY DEF BeforeUse, BeforeNotUse, BeforeNotListen, BeforeClearReady

\* Accesses that do not switch, whether they are done or given up.
LEMMA OrderByPlain ==
  ASSUME TypeOK, Order, TypeOK', cmd.todo # <<>>,
         Head(cmd.todo) \notin {"use", "do not use", "do not listen", "clear ready"},
         \A X \in SUBSET Accesses : cmd.todo \in Seq(X) => cmd'.todo \in Seq(X),
         cmd'.kind = cmd.kind, cmd'.prev = cmd.prev, cmd'.given = cmd.given,
         UNCHANGED <<param, use, ready, loop>>
  PROVE  Order'
<1>1. /\ ~BeforeUse(cmd.todo) /\ ~BeforeNotUse(cmd.todo) /\ ~BeforeNotListen(cmd.todo)
      /\ ~BeforeClearReady(cmd.todo)
  BY HeadOnly DEF TypeOK
<1>2. Steps'
  BY SetsOfAccesses DEF Order, Steps
<1>3. cmd'.todo \in Seq(Switched)
  BY <1>1 DEF Order, SwitchedOn, Switched
<1>4. (Fresh <=> Fresh') /\ (Quiet <=> Quiet') /\ (OnGiven <=> OnGiven')
  BY DEF Fresh, Quiet, OnGiven
<1>5. ~Idle
  BY DEF Idle
<1>6. SwitchedOn'
  BY <1>1, <1>3, <1>4, <1>5 DEF Order, SwitchedOn
<1>7. SwitchedOff'
  BY <1>1, <1>4 DEF Order, SwitchedOff
<1> QED BY <1>2, <1>6, <1>7 DEF Order

LEMMA OrderByUse == ASSUME TypeOK, Order, TypeOK', Doing("use"), use' = TRUE, UNCHANGED ready
                    PROVE  Order'
<1>1. /\ cmd.todo # <<>> /\ Head(cmd.todo) = "use" /\ cmd.todo \in Seq(Accesses)
      /\ cmd'.todo = Tail(cmd.todo) /\ cmd'.kind = cmd.kind /\ cmd'.prev = cmd.prev
      /\ cmd'.given = cmd.given /\ param' = param /\ loop' = loop
  BY Doings DEF TypeOK
<1>2. \A X \in SUBSET Accesses : cmd.todo \in Seq(X) => "use" \in X /\ Tail(cmd.todo) \in Seq(X)
  BY <1>1, TailParts
<1>3. param.dyn
  <2>1. ~param.dyn => "use" \in StaticAccesses
    BY <1>2, SetsOfAccesses DEF Order, Steps
  <2>2. "use" \notin StaticAccesses
    BY DEF StaticAccesses
  <2> QED BY <2>1, <2>2
<1>4. Steps'
  BY <1>1, <1>2, <1>3, SetsOfAccesses DEF Order, Steps
<1>5. cmd'.todo \in Seq(Switched)
  BY <1>1, <1>2 DEF Order, SwitchedOn, Switched
<1>6. SwitchedOn'
  BY <1>1, <1>3, <1>5 DEF Order, SwitchedOn, Idle, OnGiven
<1>7. SwitchedOff'
  BY <1>1, <1>3 DEF SwitchedOff
<1> QED BY <1>4, <1>6, <1>7 DEF Order

LEMMA OrderByNotUse == ASSUME TypeOK, Order, TypeOK', Doing("do not use"), use' = FALSE,
                              UNCHANGED ready
                       PROVE  Order'
<1>1. /\ cmd.todo # <<>> /\ Head(cmd.todo) = "do not use" /\ cmd.todo \in Seq(Accesses)
      /\ cmd'.todo = Tail(cmd.todo) /\ cmd'.kind = cmd.kind /\ cmd'.prev = cmd.prev
      /\ cmd'.given = cmd.given /\ param' = param /\ loop' = loop
  BY Doings DEF TypeOK
<1>2. \A X \in SUBSET Accesses :
        cmd.todo \in Seq(X) => "do not use" \in X /\ Tail(cmd.todo) \in Seq(X)
  BY <1>1, TailParts
<1>3. ~param.dyn
  <2>1. param.dyn => "do not use" \in DynamicAccesses
    BY <1>2, SetsOfAccesses DEF Order, Steps
  <2>2. "do not use" \notin DynamicAccesses
    BY DEF DynamicAccesses
  <2> QED BY <2>1, <2>2
<1>4. Steps'
  BY <1>1, <1>2, <1>3, SetsOfAccesses DEF Order, Steps
<1>5. cmd'.todo \in Seq(Switched)
  BY <1>1, <1>2, HeadOnly DEF Order, SwitchedOn, Switched
<1>6. (Fresh => Fresh') /\ (Quiet => Quiet') /\ (OnGiven <=> OnGiven') /\ ~Idle
  BY <1>1 DEF Fresh, Quiet, OnGiven, Idle
<1>7. SwitchedOn'
  BY <1>1, <1>3, <1>5, <1>6 DEF Order, SwitchedOn
<1>8. SwitchedOff'
  BY <1>1, <1>3, <1>6, HeadOnly DEF Order, SwitchedOff
<1> QED BY <1>4, <1>7, <1>8 DEF Order

LEMMA OrderByNotListen ==
  ASSUME TypeOK, Order, TypeOK', Doing("do not listen"), UNCHANGED <<use, ready>>
  PROVE  Order'
<1>1. /\ cmd.todo # <<>> /\ Head(cmd.todo) = "do not listen" /\ cmd.todo \in Seq(Accesses)
      /\ cmd'.todo = Tail(cmd.todo) /\ cmd'.kind = cmd.kind /\ cmd'.prev = cmd.prev
      /\ cmd'.given = cmd.given /\ param' = param /\ loop' = loop
  BY Doings DEF TypeOK
<1>2. \A X \in SUBSET Accesses :
        cmd.todo \in Seq(X) => "do not listen" \in X /\ Tail(cmd.todo) \in Seq(X)
  BY <1>1, TailParts
<1>3. ~BeforeUse(cmd.todo) /\ ~BeforeNotUse(cmd.todo) /\ ~BeforeClearReady(cmd.todo)
  BY <1>1, HeadOnly
<1>4. Steps'
  BY <1>1, <1>2, SetsOfAccesses DEF Order, Steps
<1>5. cmd'.todo \in Seq(Switched)
  BY <1>1, <1>2, <1>3 DEF Order, SwitchedOn, Switched
<1>6. (Fresh <=> Fresh') /\ (Quiet <=> Quiet') /\ (OnGiven <=> OnGiven') /\ ~Idle
  BY <1>1 DEF Fresh, Quiet, OnGiven, Idle
<1>7. SwitchedOn'
  BY <1>1, <1>3, <1>5, <1>6 DEF Order, SwitchedOn
<1>8. SwitchedOff'
  BY <1>1, <1>3, <1>6, HeadOnly DEF Order, SwitchedOff
<1> QED BY <1>4, <1>7, <1>8 DEF Order

LEMMA OrderByClearReady ==
  ASSUME TypeOK, Order, TypeOK', Doing("clear ready"), ready' = FALSE, UNCHANGED use
  PROVE  Order'
<1>1. /\ cmd.todo # <<>> /\ Head(cmd.todo) = "clear ready" /\ cmd.todo \in Seq(Accesses)
      /\ cmd'.todo = Tail(cmd.todo) /\ cmd'.kind = cmd.kind /\ cmd'.prev = cmd.prev
      /\ cmd'.given = cmd.given /\ param' = param /\ loop' = loop
  BY Doings DEF TypeOK
<1>2. \A X \in SUBSET Accesses :
        cmd.todo \in Seq(X) => "clear ready" \in X /\ Tail(cmd.todo) \in Seq(X)
  BY <1>1, TailParts
<1>3. ~BeforeUse(cmd.todo) /\ ~BeforeNotUse(cmd.todo) /\ ~BeforeNotListen(cmd.todo)
  BY <1>1, HeadOnly
<1>4. Steps'
  BY <1>1, <1>2, SetsOfAccesses DEF Order, Steps
<1>5. cmd'.todo \in Seq(Switched)
  BY <1>1, <1>2, <1>3 DEF Order, SwitchedOn, Switched
<1>6. (Fresh => Fresh') /\ (~use => Quiet') /\ (OnGiven <=> OnGiven') /\ ~Idle
  BY <1>1 DEF Fresh, Quiet, OnGiven, Idle
<1>7. SwitchedOn'
  BY <1>1, <1>3, <1>5, <1>6 DEF Order, SwitchedOn
<1>8. SwitchedOff'
  BY <1>1, <1>3, <1>6 DEF Order, SwitchedOff, Quiet
<1> QED BY <1>4, <1>7, <1>8 DEF Order

\* The positions for the beacon are only looked for while they are dynamic.
LEMMA OrderByBeaconDynamic == ASSUME TypeOK, Order, TypeOK', BeaconDynamic PROVE Order'
<1>1. /\ cmd.todo # <<>> /\ Head(cmd.todo) = "beacon dynamic" /\ cmd.todo \in Seq(Accesses)
      /\ cmd \in CmdType /\ UNCHANGED <<param, use, ready, loop>>
  BY DEF TypeOK, CmdType, BeaconDynamic, Idle, dynamics, shared
<1>2. \A X \in SUBSET Accesses :
        cmd.todo \in Seq(X) => "beacon dynamic" \in X /\ Tail(cmd.todo) \in Seq(X)
  BY <1>1, TailParts
<1>3. param.dyn
  <2>1. ~param.dyn => "beacon dynamic" \in StaticAccesses
    BY <1>2, SetsOfAccesses DEF Order, Steps
  <2>2. "beacon dynamic" \notin StaticAccesses
    BY DEF StaticAccesses
  <2> QED BY <2>1, <2>2
<1>4. ~BeforeUse(cmd.todo)
  BY <1>1, HeadOnly
<1> DEFINE A == DynamicAccesses \cap Switched
           t == Tail(cmd.todo)
           b == <<"tell beacon">>
           c == <<"clear beacon">>
<1>5. cmd'.todo \in {b \o t, c \o t} /\ cmd'.kind = cmd.kind /\ cmd'.prev = cmd.prev
      /\ cmd'.given = cmd.given
  BY <1>1 DEF BeaconDynamic, CmdType
<1>6. t \in Seq(DynamicAccesses) /\ t \in Seq(Switched)
  BY <1>2, <1>3, <1>4, SetsOfAccesses DEF Order, Steps, SwitchedOn, Switched
<1>7. b \in Seq(DynamicAccesses) /\ b \in Seq(Switched)
      /\ c \in Seq(DynamicAccesses) /\ c \in Seq(Switched)
  <2>1. /\ "tell beacon" \in DynamicAccesses /\ "tell beacon" \in Switched
        /\ "clear beacon" \in DynamicAccesses /\ "clear beacon" \in Switched
    BY DEF DynamicAccesses, Switched, Accesses
  <2> QED BY <2>1, Single
<1> HIDE DEF b, c, t
<1>8. cmd'.todo \in Seq(DynamicAccesses) /\ cmd'.todo \in Seq(Switched)
  <2>1. /\ b \o t \in Seq(DynamicAccesses) /\ b \o t \in Seq(Switched)
        /\ c \o t \in Seq(DynamicAccesses) /\ c \o t \in Seq(Switched)
    BY <1>6, <1>7, Joined
  <2> QED BY <1>5, <2>1
<1>9. (Fresh <=> Fresh') /\ (OnGiven <=> OnGiven') /\ ~Idle /\ use
  BY <1>1, <1>3, <1>4, <1>5 DEF Fresh, OnGiven, Idle, Order, SwitchedOn
<1>10. Steps' /\ SwitchedOff'
  BY <1>1, <1>3, <1>8 DEF Steps, SwitchedOff
<1>11. SwitchedOn'
  BY <1>1, <1>3, <1>5, <1>8, <1>9 DEF Order, SwitchedOn
<1> QED BY <1>10, <1>11 DEF Order

LEMMA OrderByFails == ASSUME TypeOK, Order, TypeOK', Fails PROVE Order'
<1>1. /\ cmd.todo # <<>> /\ cmd.todo \in Seq(Accesses) /\ cmd \in CmdType
      /\ cmd'.kind = "rollback" /\ cmd'.prev = cmd.prev /\ cmd'.given = cmd.given
      /\ UNCHANGED <<use, ready, loop>> /\ cmd.prev \in Params
  BY FailsParts DEF TypeOK, CmdType, dynamics, shared
<1>2. (Fresh <=> Fresh') /\ (Quiet <=> Quiet') /\ (OnGiven <=> OnGiven') /\ ~Idle
  BY <1>1 DEF Fresh, Quiet, OnGiven, Idle
<1>3. CASE cmd.kind # "rollback" /\ cmd.prev.dyn
  <2>1. param' = cmd.prev /\ cmd'.todo = Rollback(cmd.kind, cmd.prev)
    BY <1>3, FailsParts
  <2>2. use
    BY <1>2, <1>3 DEF Order, SwitchedOn
  <2>3. cmd'.todo \in Seq(DynamicAccesses \cap Switched)
    BY <1>1, <1>3, <2>1, <2>2, RollbackParts
  <2>4. DynamicAccesses \cap Switched \subseteq Switched
    OBVIOUS
  <2>5. cmd'.todo \in Seq(DynamicAccesses) /\ cmd'.todo \in Seq(Switched)
    BY <2>3, <2>4, SetsOfAccesses, SeqMonotonic
  <2> QED BY <1>1, <1>3, <2>1, <2>2, <2>5 DEF Order, Steps, SwitchedOn, SwitchedOff
<1>4. CASE cmd.kind # "rollback" /\ ~cmd.prev.dyn
  <2>1. param' = cmd.prev /\ cmd'.todo = Rollback(cmd.kind, cmd.prev)
    BY <1>4, FailsParts
  <2>2. cmd'.todo \in Seq(StaticAccesses) /\ BeforeNotUse(cmd'.todo)
    BY <1>1, <1>4, <2>1, RollbackParts
  <2>3. cmd'.todo \in Seq(Switched)
    BY <2>2, SetsOfAccesses, SeqMonotonic
  <2>4. ~OnGiven => Fresh
    BY <1>2, <1>4 DEF Order, SwitchedOn
  <2>5. SwitchedOn'
    BY <1>1, <1>2, <1>4, <2>1, <2>3, <2>4 DEF SwitchedOn
  <2> QED BY <1>1, <1>4, <2>1, <2>2, <2>5 DEF Order, Steps, SwitchedOff
<1>5. CASE cmd.kind = "rollback"
  <2>1. param' = param /\ cmd'.todo = AfterAnchors(cmd.prev)
    BY <1>5, FailsParts
  <2>2. Head(cmd.todo) \in {"beacon static", "tell beacon", "live static", "beacon dynamic"}
    BY <1>5 DEF Fails, DynamicRefused, StaticRefused
  <2>3. /\ ~BeforeUse(cmd.todo) /\ ~BeforeNotUse(cmd.todo) /\ ~BeforeNotListen(cmd.todo)
        /\ ~BeforeClearReady(cmd.todo)
    BY <1>1, <2>2, HeadOnly
  <2>4. /\ cmd'.todo \in Seq(DynamicAccesses) /\ cmd'.todo \in Seq(Switched)
        /\ cmd'.todo \in Seq(StaticAccesses)
    <3>1. cmd'.todo \in Seq(DynamicAccesses \cap StaticAccesses \cap Switched)
      BY <2>1, Pieces DEF AfterAnchors
    <3>2. /\ DynamicAccesses \cap StaticAccesses \cap Switched \subseteq DynamicAccesses
          /\ DynamicAccesses \cap StaticAccesses \cap Switched \subseteq StaticAccesses
          /\ DynamicAccesses \cap StaticAccesses \cap Switched \subseteq Switched
      OBVIOUS
    <3> QED BY <3>1, <3>2, SeqMonotonic
  <2>5. Steps' /\ SwitchedOff'
    BY <1>2, <2>1, <2>3, <2>4 DEF Order, Steps, SwitchedOff
  <2>6. SwitchedOn'
    BY <1>1, <1>2, <2>1, <2>3, <2>4 DEF Order, SwitchedOn
  <2> QED BY <2>5, <2>6 DEF Order
<1> QED BY <1>3, <1>4, <1>5

LEMMA GivenAppended ==
  ASSUME TypeOK, NEW kind \in Commands, cmd'.given = Append(cmd.given, kind)
  PROVE  /\ OneSwitch' => OneSwitch /\ kind # "dynamic off"
         /\ OneSwitch' /\ kind = "dynamic on" => ~OnGiven
         /\ OnGiven' <=> OnGiven \/ kind = "dynamic on"
         /\ NeverSwitched' => /\ NeverSwitched
                              /\ kind \notin {"dynamic on", "dynamic off"}
<1> DEFINE g == cmd.given
           h == cmd'.given
           n == Len(g)
<1>1. /\ n \in Nat /\ DOMAIN g = 1 .. n /\ DOMAIN h = 1 .. n + 1
      /\ \A i \in 1 .. n : h[i] = g[i]
      /\ h[n + 1] = kind
  BY DEF TypeOK
<1>2. /\ DOMAIN g \subseteq DOMAIN h /\ n + 1 \in DOMAIN h /\ n + 1 \notin DOMAIN g
      /\ \A i \in DOMAIN h : i \in DOMAIN g \/ i = n + 1
      /\ \A i \in DOMAIN g : h[i] = g[i]
  BY <1>1
<1>3. /\ OneSwitch' <=> /\ \A i \in DOMAIN h : h[i] # "dynamic off"
                        /\ \A i, j \in DOMAIN h :
                             h[i] = "dynamic on" /\ h[j] = "dynamic on" => i = j
      /\ OneSwitch <=> /\ \A i \in DOMAIN g : g[i] # "dynamic off"
                       /\ \A i, j \in DOMAIN g :
                            g[i] = "dynamic on" /\ g[j] = "dynamic on" => i = j
  BY DEF OneSwitch
<1>4. /\ OnGiven' <=> \E i \in DOMAIN h : h[i] = "dynamic on"
      /\ OnGiven <=> \E i \in DOMAIN g : g[i] = "dynamic on"
  BY DEF OnGiven
<1>5. /\ NeverSwitched' <=> \A i \in DOMAIN h : h[i] \notin {"dynamic on", "dynamic off"}
      /\ NeverSwitched <=> \A i \in DOMAIN g : g[i] \notin {"dynamic on", "dynamic off"}
  BY DEF NeverSwitched, ToSet
<1> HIDE DEF g, h, n
<1>6. OneSwitch' => OneSwitch /\ kind # "dynamic off"
  BY <1>1, <1>2, <1>3
<1>7. OneSwitch' /\ kind = "dynamic on" => ~OnGiven
  BY <1>1, <1>2, <1>3, <1>4
<1>8. OnGiven' <=> OnGiven \/ kind = "dynamic on"
  BY <1>1, <1>2, <1>4
<1>9. NeverSwitched' => NeverSwitched /\ kind \notin {"dynamic on", "dynamic off"}
  BY <1>1, <1>2, <1>5
<1> QED BY <1>6, <1>7, <1>8, <1>9

LEMMA OrderByCommand ==
  ASSUME TypeOK, Order, TypeOK', OneSwitch',
         NEW kind \in Commands, NEW p \in Stored(kind), SetParam(kind, p)
  PROVE  Order'
<1>1. /\ cmd.todo = <<>> /\ param' = p /\ Idle
      /\ cmd'.todo = Program(kind, p) /\ cmd'.kind = kind /\ cmd'.prev = param
      /\ cmd'.given = Append(cmd.given, kind)
      /\ UNCHANGED <<use, ready, loop>>
  BY SetParamTypes DEF SetParam, dynamics, shared, Idle
<1>2. /\ kind \in Kinds /\ kind # "dynamic off" /\ kind # "rollback"
      /\ kind = "dynamic on" => ~OnGiven
      /\ OnGiven' <=> OnGiven \/ kind = "dynamic on"
  BY <1>1, GivenAppended, GeometryTypes DEF Kinds
<1>3. /\ p \in Params /\ (kind = "dynamic on" => p.dyn)
      /\ (kind # "dynamic on" => p.dyn = param.dyn) /\ (kind = "layout" => param.dyn)
  BY <1>2, StoredParams
<1>4. (Fresh <=> Fresh') /\ (Quiet <=> Quiet')
  BY <1>1 DEF Fresh, Quiet
<1>5. (param.dyn => use) /\ (~param.dyn /\ ~OnGiven => Fresh) /\ (~param.dyn => Quiet)
  BY <1>1, EmptyIsBeforeNothing DEF Order, SwitchedOn, SwitchedOff
<1>6. CASE p.dyn
  <2>1. use \/ kind = "dynamic on"
    BY <1>3, <1>5, <1>6
  <2>2. /\ cmd'.todo \in Seq(DynamicAccesses)
        /\ use => cmd'.todo \in Seq(DynamicAccesses \cap Switched)
        /\ ~use => /\ BeforeUse(cmd'.todo)
                   /\ Tail(cmd'.todo) \in Seq(DynamicAccesses \cap Switched)
    BY <1>1, <1>2, <1>3, <1>6, <2>1, DynamicProgram
  <2>3. \A s : s \in Seq(DynamicAccesses \cap Switched) => s \in Seq(Switched)
    BY SeqMonotonic
  <2>4. ~use => Fresh
    BY <1>2, <1>5, <2>1
  <2>5. SwitchedOn'
    BY <1>1, <1>2, <1>3, <1>4, <1>5, <1>6, <2>2, <2>3, <2>4 DEF SwitchedOn
  <2> QED BY <1>1, <1>6, <2>2, <2>5 DEF Order, Steps, SwitchedOff
<1>7. CASE ~p.dyn
  <2>1. kind \in {"commit", "disable", "enable"} /\ ~param.dyn
    BY <1>2, <1>3, <1>7 DEF Kinds
  <2>2. cmd'.todo \in Seq(StaticAccesses)
    BY <1>1, <1>3, <1>7, <2>1, StaticProgram
  <2>3. cmd'.todo \in Seq(Switched)
    BY <2>2, SetsOfAccesses, SeqMonotonic
  <2>4. SwitchedOn'
    BY <1>1, <1>2, <1>4, <1>5, <1>7, <2>1, <2>3 DEF SwitchedOn
  <2> QED BY <1>1, <1>4, <1>5, <1>7, <2>1, <2>2, <2>4 DEF Order, Steps, SwitchedOff
<1> QED BY <1>6, <1>7

LEMMA OrderByAccess == ASSUME TypeOK, Order, TypeOK', Access PROVE Order'
<1>1. cmd.todo \in Seq(Accesses)
  BY DEF TypeOK
<1>2. ASSUME NEW access, Doing(access), UNCHANGED <<use, ready>>,
             access \notin {"use", "do not use", "do not listen", "clear ready"}
      PROVE  Order'
  <2>1. /\ cmd.todo # <<>> /\ Head(cmd.todo) = access /\ cmd'.todo = Tail(cmd.todo)
        /\ cmd'.kind = cmd.kind /\ cmd'.prev = cmd.prev /\ cmd'.given = cmd.given
        /\ param' = param /\ loop' = loop
    BY <1>2, Doings
  <2>2. \A X \in SUBSET Accesses : cmd.todo \in Seq(X) => cmd'.todo \in Seq(X)
    BY <1>1, <2>1, TailParts
  <2> QED BY <1>2, <2>1, <2>2, OrderByPlain
<1>3. ASSUME NEW access, NEW n \in Nat, Skipping(access, n),
             access \notin {"use", "do not use", "do not listen", "clear ready"}
      PROVE  Order'
  <2>1. /\ cmd.todo # <<>> /\ Head(cmd.todo) = access
        /\ cmd'.todo = SubSeq(cmd.todo, n + 1, Len(cmd.todo))
        /\ cmd'.kind = cmd.kind /\ cmd'.prev = cmd.prev /\ cmd'.given = cmd.given
        /\ UNCHANGED <<param, use, ready, loop>>
    BY <1>3, Skippings DEF dynamics, shared
  <2>2. \A X \in SUBSET Accesses : cmd.todo \in Seq(X) => cmd'.todo \in Seq(X)
    BY <2>1, SkipParts
  <2> QED BY <1>3, <2>1, <2>2, OrderByPlain
<1>4. CASE SwitchUse
  <2>1. PICK on \in BOOLEAN :
          \/ Doing(IF on THEN "use" ELSE "do not use") /\ use' = on /\ UNCHANGED listening
          \/ /\ Doing(IF on THEN "listen" ELSE "do not listen") /\ listening' = on
             /\ UNCHANGED use
    BY <1>4 DEF SwitchUse
  <2>2. UNCHANGED ready
    BY <1>4 DEF SwitchUse, shared
  <2>3. \/ Doing("use") /\ use' = TRUE
        \/ Doing("do not use") /\ use' = FALSE
        \/ Doing("listen") /\ UNCHANGED use
        \/ Doing("do not listen") /\ UNCHANGED use
    BY <2>1
  <2> QED BY <1>2, <2>2, <2>3, OrderByUse, OrderByNotUse, OrderByNotListen
<1>5. CASE ClearFlags
  <2>1. \/ Doing("clear ready") /\ ready' = FALSE
        \/ (Doing("clear reinit") \/ Doing("clear holdoff")) /\ UNCHANGED ready
    BY <1>5 DEF ClearFlags
  <2>2. UNCHANGED use
    BY <1>5 DEF ClearFlags, dynamics
  <2> QED BY <1>2, <2>1, <2>2, OrderByClearReady
<1>6. CASE ResetCalc
  BY <1>2, <1>6 DEF ResetCalc, shared
<1>7. CASE ClearLive
  BY <1>2, <1>7 DEF ClearLive, dynamics
<1>8. CASE ClearBeacon
  BY <1>2, <1>8 DEF ClearBeacon, dynamics
<1>9. CASE BusyClear
  <2>1. Len(RuntimeConfig) \in Nat /\ 1 \in Nat
    BY Pieces
  <2>2. CASE \E access \in {"reset calc", "clear live", "clear beacon"} : Skipping(access, 1)
    BY <1>3, <2>1, <2>2
  <2>3. CASE Skipping("init calc", Len(RuntimeConfig))
    BY <1>3, <2>1, <2>3
  <2> QED BY <1>9, <2>2, <2>3 DEF BusyClear
<1>10. CASE BeaconStatic
  BY <1>2, <1>10 DEF BeaconStatic, dynamics
<1>11. CASE LiveStatic
  BY <1>2, <1>11 DEF LiveStatic, dynamics
<1>12. CASE RequestReinit
  BY <1>2, <1>12 DEF RequestReinit, dynamics
<1>13. CASE BeaconDynamic
  BY <1>13, OrderByBeaconDynamic
<1>14. CASE TellBeacon
  <2>1. /\ cmd.todo # <<>> /\ Head(cmd.todo) = "tell beacon" /\ cmd \in CmdType
        /\ UNCHANGED <<param, use, ready, loop>>
        /\ cmd' = [cmd EXCEPT !.todo = Tail(cmd.todo), !.anchors = None]
    BY <1>14 DEF TellBeacon, TypeOK, CmdType, Idle, dynamics
  <2>2. /\ cmd'.todo = Tail(cmd.todo) /\ cmd'.kind = cmd.kind /\ cmd'.prev = cmd.prev
        /\ cmd'.given = cmd.given /\ cmd.todo # <<>>
    BY <2>1 DEF CmdType
  <2>3. \A X \in SUBSET Accesses : cmd.todo \in Seq(X) => cmd'.todo \in Seq(X)
    BY <1>1, <2>2, TailParts
  <2>4. Head(cmd.todo) \notin {"use", "do not use", "do not listen", "clear ready"}
    BY <2>1
  <2> QED BY <2>1, <2>2, <2>3, <2>4, OrderByPlain
<1>15. CASE Fails
  BY <1>15, OrderByFails
<1> QED BY <1>4, <1>5, <1>6, <1>7, <1>8, <1>9, <1>10, <1>11, <1>12, <1>13, <1>14, <1>15
        DEF Access

LEMMA OrderByTasks ==
  ASSUME TypeOK, Order,
         \/ Produce \/ Distances \/ Calculate \/ Publish \/ LoopBusy
         \/ Announce \/ CopyForBeacon \/ Tell \/ Retract
         \/ Begin \/ ReadHoldoff \/ ResetHoldoff \/ TakeReinit \/ Copy \/ Solve
         \/ HoldoffPasses
  PROVE  Order'
<1>0. loop \in LoopType
  BY DEF TypeOK, LoopType
<1>1. CASE Produce
  BY <1>0, <1>1, OrderByOthers DEF Produce, Looping, Fresh, Quiet, dynamics, LoopType
<1>2. CASE Distances
  BY <1>0, <1>2, OrderByOthers DEF Distances, Looping, Fresh, Quiet, shared, LoopType
<1>3. CASE Calculate
  BY <1>0, <1>3, OrderByOthers DEF Calculate, Looping, Fresh, Quiet, dynamics, LoopType
<1>4. CASE Publish
  BY <1>0, <1>4, OrderByOthers DEF Publish, Looping, Fresh, Quiet, dynamics, LoopType
<1>5. CASE LoopBusy
  BY <1>0, <1>5, OrderByOthers DEF LoopBusy, Fresh, Quiet, dynamics, shared, LoopType
<1>6. CASE Announce
  BY <1>0, <1>6, OrderByOthers DEF Announce, Looping, Fresh, Quiet, dynamics, LoopType
<1>7. CASE CopyForBeacon
  BY <1>0, <1>7, OrderByOthers DEF CopyForBeacon, Fresh, Quiet, dynamics, shared, LoopType
<1>8. CASE Tell
  BY <1>0, <1>8, OrderByOthers DEF Tell, Fresh, Quiet, dynamics, LoopType
<1>9. CASE Retract
  BY <1>0, <1>9, OrderByOthers DEF Retract, Looping, Fresh, Quiet, dynamics, LoopType
<1>10. CASE Begin \/ ReadHoldoff \/ ResetHoldoff \/ TakeReinit \/ Copy \/ Solve
  <2>1. \E from : Estimating(from)
    BY <1>10 DEF Begin, ReadHoldoff, ResetHoldoff, TakeReinit, Copy, Solve
  <2>2. UNCHANGED <<param, use, cmd, ready, loop>>
    BY <2>1 DEF Estimating, dynamics
  <2> QED BY <2>2, OrderByOthers DEF Fresh, Quiet
<1>11. CASE HoldoffPasses
  BY <1>11, OrderByOthers DEF HoldoffPasses, Fresh, Quiet, dynamics
<1> QED BY <1>1, <1>2, <1>3, <1>4, <1>5, <1>6, <1>7, <1>8, <1>9, <1>10, <1>11

-----------------------------------------------------------------------------
\* The fresh rows are of what is live, and the batch is of what was copied with it.
Rows == rows \subseteq {live} \ {None} /\ est.rows \subseteq {est.geometry}

\* An announcement found by a publication is of positions that are not static.
Announced ==
  /\ use /\ (ready \/ loop.pc = "ready") => live \notin Statics
  /\ loop.pc = "publish" /\ ready => live \notin Statics

Data == Rows /\ Announced

LEMMA DataByOthers ==
  ASSUME Data, UNCHANGED <<live, rows, est, loop>>,
         use' => use, ready' => ready
  PROVE  Data'
BY DEF Data, Rows, Announced

LEMMA DataByAccess == ASSUME TypeOK, Order, Data, Access PROVE Data'
<1>0. cmd.todo \in Seq(Accesses)
  BY DEF TypeOK
<1>a. ASSUME NEW access, Doing(access)
      PROVE  /\ cmd.todo # <<>> /\ Head(cmd.todo) = access
             /\ loop' = loop /\ est' = est /\ param' = param
  BY <1>a DEF Doing, Idle
<1>1. CASE SwitchUse
  <2>1. PICK on \in BOOLEAN :
          \/ Doing(IF on THEN "use" ELSE "do not use") /\ use' = on /\ UNCHANGED listening
          \/ /\ Doing(IF on THEN "listen" ELSE "do not listen") /\ listening' = on
             /\ UNCHANGED use
    BY <1>1 DEF SwitchUse
  <2>2. UNCHANGED <<live, rows, ready>>
    BY <1>1 DEF SwitchUse, shared
  <2>3. CASE Doing("use")
    <3>1. BeforeUse(cmd.todo)
      BY <1>0, <1>a, <2>3, HeadOnly
    <3>2. Fresh
      <4>1. cmd.todo \notin Seq(Switched)
        <5>1. "use" \notin Switched
          BY DEF Switched
        <5>2. ASSUME cmd.todo \in Seq(Switched) PROVE Head(cmd.todo) \in Switched
          BY <1>a, <2>3, <5>2
        <5> QED BY <1>a, <2>3, <5>1, <5>2
      <4> QED BY <4>1 DEF Order, SwitchedOn
    <3> QED BY <1>a, <2>2, <2>3, <3>2 DEF Fresh, Data, Rows, Announced
  <2>4. CASE ~Doing("use")
    <3>1. \/ Doing("do not use") /\ use' = FALSE
          \/ (Doing("listen") \/ Doing("do not listen")) /\ UNCHANGED use
      BY <2>1, <2>4
    <3>2. loop' = loop /\ est' = est
      BY <1>a, <3>1
    <3>3. CASE Doing("do not use") /\ use' = FALSE
      BY <2>2, <3>2, <3>3, DataByOthers
    <3>4. CASE UNCHANGED use
      BY <2>2, <3>2, <3>4, DataByOthers
    <3> QED BY <3>1, <3>3, <3>4
  <2> QED BY <2>3, <2>4
<1>2. CASE ClearFlags
  <2>1. loop' = loop /\ est' = est
    BY <1>2, <1>a DEF ClearFlags
  <2>2. (ready' = FALSE \/ UNCHANGED ready) /\ UNCHANGED <<live, rows, use>>
    BY <1>2 DEF ClearFlags, dynamics
  <2> QED BY <2>1, <2>2, DataByOthers
<1>3. CASE ResetCalc
  <2>1. loop' = loop /\ est' = est
    BY <1>3, <1>a DEF ResetCalc
  <2> QED BY <1>3, <2>1, DataByOthers DEF ResetCalc, shared
<1>4. CASE ClearLive
  <2>1. loop' = loop /\ est' = est
    BY <1>4, <1>a DEF ClearLive
  <2>2. live' = None /\ rows' = {} /\ use' = use /\ ready' = ready
    BY <1>4 DEF ClearLive, dynamics
  <2> QED BY <2>1, <2>2, GeometryTypes DEF Data, Rows, Announced
<1>5. CASE ClearBeacon
  <2>1. loop' = loop /\ est' = est
    BY <1>5, <1>a DEF ClearBeacon
  <2> QED BY <1>5, <2>1, DataByOthers DEF ClearBeacon, dynamics
<1>6. CASE BusyClear
  <2>1. ASSUME NEW access, NEW n, Skipping(access, n) PROVE Data'
    BY <2>1, DataByOthers DEF Skipping, dynamics, shared
  <2> QED BY <1>6, <2>1 DEF BusyClear
<1>7. CASE BeaconStatic
  <2>1. loop' = loop /\ est' = est
    BY <1>7, <1>a DEF BeaconStatic
  <2> QED BY <1>7, <2>1, DataByOthers DEF BeaconStatic, dynamics
<1>8. CASE LiveStatic
  <2>1. /\ loop' = loop /\ est' = est /\ cmd.todo # <<>> /\ Head(cmd.todo) = "live static"
        /\ rows' = {} /\ use' = use /\ ready' = ready
    BY <1>8, <1>a DEF LiveStatic, dynamics
  <2>2. ~param.dyn
    <3>0. cmd.todo \in Seq(DynamicAccesses) => Head(cmd.todo) \in DynamicAccesses
      BY <1>0, <2>1, TailParts, SetsOfAccesses
    <3>1. param.dyn => Head(cmd.todo) \in DynamicAccesses
      BY <3>0 DEF Order, Steps
    <3>2. "live static" \notin DynamicAccesses
      BY DEF DynamicAccesses
    <3> QED BY <2>1, <3>1, <3>2
  <2>3. Quiet
    <3>1. ~BeforeNotUse(cmd.todo) /\ ~BeforeNotListen(cmd.todo) /\ ~BeforeClearReady(cmd.todo)
      BY <1>0, <2>1, HeadOnly
    <3> QED BY <2>2, <3>1 DEF Order, SwitchedOff
  <2> QED BY <2>1, <2>3 DEF Quiet, Data, Rows, Announced
<1>9. CASE RequestReinit
  <2>1. loop' = loop /\ est' = est
    BY <1>9, <1>a DEF RequestReinit
  <2> QED BY <1>9, <2>1, DataByOthers DEF RequestReinit, dynamics
<1>10. CASE BeaconDynamic
  BY <1>10, DataByOthers DEF BeaconDynamic, dynamics, shared
<1>11. CASE TellBeacon
  BY <1>11, DataByOthers DEF TellBeacon, dynamics
<1>12. CASE Fails
  BY <1>12, DataByOthers, FailsParts DEF dynamics, shared
<1> QED BY <1>1, <1>2, <1>3, <1>4, <1>5, <1>6, <1>7, <1>8, <1>9, <1>10, <1>11, <1>12
        DEF Access

LEMMA DataByTasks ==
  ASSUME TypeOK, Order, Data,
         \/ Produce \/ Distances \/ Calculate \/ Publish \/ LoopBusy
         \/ Announce \/ CopyForBeacon \/ Tell \/ Retract
         \/ Begin \/ ReadHoldoff \/ ResetHoldoff \/ TakeReinit \/ Copy \/ Solve
         \/ HoldoffPasses
  PROVE  Data'
<1>0. loop \in LoopType /\ est \in EstType
  BY DEF TypeOK, LoopType, EstType
<1>a. ASSUME NEW from, NEW to, Looping(from, to)
      PROVE  loop.pc = from /\ loop'.pc = to /\ est' = est
  BY <1>0, <1>a DEF Looping, LoopType
<1>1. CASE Produce
  <2>1. loop.pc = "idle" /\ loop'.pc = "idle" /\ est' = est
    BY <1>a, <1>1 DEF Produce
  <2> QED BY <1>1, <2>1 DEF Produce, Data, Rows, Announced, dynamics
<1>2. CASE Distances
  <2>1. loop.pc = "idle" /\ loop'.pc = "idle" /\ est' = est
    BY <1>a, <1>2 DEF Distances
  <2> QED BY <1>2, <2>1 DEF Distances, Data, Rows, Announced, shared
<1>3. CASE Calculate
  <2>1. /\ est' = est /\ loop'.pc # "ready" /\ use /\ use' = use
        /\ \/ loop'.pc = "publish" /\ UNCHANGED ready
           \/ ready' = FALSE /\ loop'.pc = "retract"
        /\ UNCHANGED <<live, rows>>
    BY <1>a, <1>3 DEF Calculate, dynamics
  <2> QED BY <2>1 DEF Data, Rows, Announced
<1>4. CASE Publish
  <2>1. loop.pc = "publish" /\ loop'.pc = (IF ready THEN "idle" ELSE "ready") /\ est' = est
    BY <1>a, <1>4 DEF Publish
  <2>2. live' = Dynamic /\ rows' = (IF ready THEN rows ELSE {}) /\ use' = use /\ ready' = ready
    BY <1>4 DEF Publish, dynamics
  <2>3. rows' \subseteq {Dynamic} \ {None}
    <3>1. CASE ready
      <4>1. live \in Geometries \ Statics
        BY <2>1, <3>1 DEF Data, Announced, TypeOK
      <4> QED BY <2>2, <3>1, <4>1 DEF Data, Rows, Geometries
    <3> QED BY <2>2, <3>1
  <2> QED BY <2>1, <2>2, <2>3, GeometryTypes DEF Data, Rows, Announced
<1>5. CASE LoopBusy
  <2>1. loop'.pc \in {"idle", "forget"}
    BY <1>5 DEF LoopBusy
  <2> QED BY <1>5, <2>1 DEF LoopBusy, Data, Rows, Announced, dynamics, shared
<1>6. CASE Announce
  <2>1. est' = est /\ UNCHANGED <<live, rows, use>>
    BY <1>a, <1>6 DEF Announce, dynamics
  <2>2. \/ loop.pc = "ready" /\ loop'.pc = "reinit"
        \/ loop'.pc \in {"holdoff", "beacon"} /\ UNCHANGED ready
    BY <1>a, <1>6 DEF Announce
  <2> QED BY <2>1, <2>2 DEF Data, Rows, Announced
<1>7. CASE CopyForBeacon
  <2>1. loop'.pc \in {"idle", "tell"}
    BY <1>0, <1>7 DEF CopyForBeacon, LoopType
  <2> QED BY <1>7, <2>1 DEF CopyForBeacon, Data, Rows, Announced, dynamics, shared
<1>8. CASE Tell
  BY <1>8 DEF Tell, Data, Rows, Announced, dynamics
<1>9. CASE Retract
  <2>1. est' = est /\ UNCHANGED <<use, ready>> /\ loop'.pc \notin {"publish", "ready"}
    <3>1. \/ Looping("retract", "forget") \/ Looping("forget", "unhold")
          \/ Looping("unhold", "no beacon") \/ Looping("no beacon", "idle")
      BY <1>9 DEF Retract
    <3>2. UNCHANGED <<use, ready>>
      BY <1>9 DEF Retract, dynamics
    <3>3. est' = est
      BY <1>a, <3>1
    <3>4. loop'.pc \in {"forget", "unhold", "no beacon", "idle"}
      BY <1>a, <3>1
    <3> QED BY <3>2, <3>3, <3>4
  <2>2. \/ live' = None /\ rows' = {}
        \/ UNCHANGED <<live, rows>>
    BY <1>9 DEF Retract
  <2> QED BY <2>1, <2>2, GeometryTypes DEF Data, Rows, Announced
<1>10. ASSUME UNCHANGED <<live, use, ready, loop>>, rows' \in {rows, {}},
              est'.rows \subseteq {est'.geometry}
       PROVE  Data'
  BY <1>10 DEF Data, Rows, Announced
<1>b. ASSUME NEW from, Estimating(from) PROVE UNCHANGED <<live, use, ready, loop>>
  BY <1>b DEF Estimating, dynamics
<1>11. CASE Begin \/ ReadHoldoff \/ ResetHoldoff \/ TakeReinit
  <2>1. est'.rows = est.rows /\ est'.geometry = est.geometry
    BY <1>0, <1>11 DEF Begin, ReadHoldoff, ResetHoldoff, TakeReinit, EstType
  <2>2. UNCHANGED rows
    BY <1>11 DEF Begin, ReadHoldoff, ResetHoldoff, TakeReinit
  <2>3. UNCHANGED <<live, use, ready, loop>>
    BY <1>11, <1>b DEF Begin, ReadHoldoff, ResetHoldoff, TakeReinit
  <2> QED BY <1>10, <2>1, <2>2, <2>3 DEF Data, Rows
<1>12. CASE Copy
  <2>1. UNCHANGED <<live, use, ready, loop>>
    BY <1>12, <1>b DEF Copy
  <2>2. CASE est' = [est EXCEPT !.pc = "waiting"] /\ UNCHANGED rows
    <3>1. est'.rows = est.rows /\ est'.geometry = est.geometry
      BY <1>0, <2>2 DEF EstType
    <3> QED BY <1>10, <2>1, <2>2, <3>1 DEF Data, Rows
  <2>3. CASE est'.rows = rows /\ est'.geometry = live /\ rows' = {}
    BY <1>10, <2>1, <2>3 DEF Data, Rows
  <2> QED BY <1>12, <2>2, <2>3 DEF Copy
<1>13. CASE Solve
  <2>1. est'.rows = {} /\ UNCHANGED rows
    BY <1>0, <1>13 DEF Solve, EstType
  <2>2. UNCHANGED <<live, use, ready, loop>>
    BY <1>13, <1>b DEF Solve
  <2> QED BY <1>10, <2>1, <2>2
<1>14. CASE HoldoffPasses
  BY <1>14, DataByOthers DEF HoldoffPasses, dynamics
<1> QED BY <1>1, <1>2, <1>3, <1>4, <1>5, <1>6, <1>7, <1>8, <1>9, <1>11, <1>12, <1>13, <1>14

LEMMA OnlyCommandsAreGiven == ASSUME TypeOK, [Next]_vars, ~Command PROVE cmd'.given = cmd.given
<1>1. CASE Access
  <2>1. CASE Fails
    BY <2>1, FailsParts
  <2>2. CASE BeaconDynamic \/ TellBeacon
    <3>1. cmd \in CmdType
      BY DEF TypeOK, CmdType
    <3> QED BY <2>2, <3>1 DEF BeaconDynamic, TellBeacon, CmdType
  <2>3. CASE BusyClear
    <3>1. Len(RuntimeConfig) \in Nat /\ 1 \in Nat
      BY Pieces
    <3>2. \/ \E access \in {"reset calc", "clear live", "clear beacon"} : Skipping(access, 1)
          \/ Skipping("init calc", Len(RuntimeConfig))
      BY <2>3 DEF BusyClear
    <3> QED BY <3>1, <3>2, Skippings
  <2>4. CASE \/ SwitchUse \/ ClearFlags \/ ResetCalc \/ ClearLive \/ ClearBeacon
             \/ BeaconStatic \/ LiveStatic \/ RequestReinit
    BY <2>4, Doings DEF SwitchUse, ClearFlags, ResetCalc, ClearLive, ClearBeacon,
       BeaconStatic, LiveStatic, RequestReinit
  <2> QED BY <1>1, <2>1, <2>2, <2>3, <2>4 DEF Access
<1>2. CASE \/ Produce \/ Distances \/ Calculate \/ Publish \/ LoopBusy
           \/ Announce \/ CopyForBeacon \/ Tell \/ Retract
  BY <1>2 DEF Produce, Distances, Calculate, Publish, LoopBusy, Announce, CopyForBeacon, Tell,
     Retract, Looping
<1>3. CASE \/ Begin \/ ReadHoldoff \/ ResetHoldoff \/ TakeReinit \/ Copy \/ Solve
  BY <1>3 DEF Begin, ReadHoldoff, ResetHoldoff, TakeReinit, Copy, Solve, Estimating
<1>4. CASE HoldoffPasses \/ UNCHANGED vars
  BY <1>4 DEF HoldoffPasses, vars
<1> QED BY <1>1, <1>2, <1>3, <1>4 DEF Next

\* The inductive invariant for the geometry of a batch.
GeometryInv == OneSwitch => Order /\ Data

LEMMA GeometryInit == Init => GeometryInv
<1> SUFFICES ASSUME Init PROVE Order /\ Data
  BY DEF GeometryInv
<1>1. cmd.todo = <<>> /\ param.dyn \in BOOLEAN /\ use = param.dyn /\ loop.pc = "idle"
      /\ ready = FALSE /\ rows = {} /\ est.rows = {}
  BY DEF Init
<1>2. <<>> \in Seq(DynamicAccesses) /\ <<>> \in Seq(StaticAccesses) /\ <<>> \in Seq(Switched)
  OBVIOUS
<1>3. Order
  BY <1>1, <1>2 DEF Order, Steps, SwitchedOn, SwitchedOff, Fresh, Quiet, Idle
<1>4. Data
  BY <1>1 DEF Data, Rows, Announced
<1> QED BY <1>3, <1>4

LEMMA GeometryNext == TypeOK /\ TypeOK' /\ GeometryInv /\ [Next]_vars => GeometryInv'
<1> SUFFICES ASSUME TypeOK, TypeOK', GeometryInv, [Next]_vars, OneSwitch'
             PROVE  Order' /\ Data'
  BY DEF GeometryInv
<1>1. CASE Command
  <2>1. PICK kind \in Commands : \E p \in Stored(kind) : SetParam(kind, p)
    BY <1>1 DEF Command
  <2>2. PICK p \in Stored(kind) : SetParam(kind, p)
    BY <2>1
  <2>3. OneSwitch
    BY <2>2, GivenAppended, SetParamTypes
  <2>4. Order /\ Data
    BY <2>3 DEF GeometryInv
  <2>5. Order'
    BY <2>2, <2>4, OrderByCommand
  <2>6. Data'
    BY <2>2, <2>4, DataByOthers DEF SetParam, dynamics, shared
  <2> QED BY <2>5, <2>6
<1>2. CASE ~Command
  <2>1. OneSwitch
    BY <1>2, OnlyCommandsAreGiven DEF OneSwitch
  <2>2. Order /\ Data
    BY <2>1 DEF GeometryInv
  <2>3. CASE Access
    BY <2>2, <2>3, OrderByAccess, DataByAccess
  <2>4. CASE \/ Produce \/ Distances \/ Calculate \/ Publish \/ LoopBusy
             \/ Announce \/ CopyForBeacon \/ Tell \/ Retract
             \/ Begin \/ ReadHoldoff \/ ResetHoldoff \/ TakeReinit \/ Copy \/ Solve
             \/ HoldoffPasses
    BY <2>2, <2>4, OrderByTasks, DataByTasks
  <2>5. CASE UNCHANGED vars
    <3>1. UNCHANGED <<param, use, cmd, ready, loop, live, rows, est>>
      BY <2>5 DEF vars, dynamics, shared
    <3> QED BY <2>2, <3>1, OrderByOthers, DataByOthers DEF Fresh, Quiet
  <2> QED BY <1>2, <2>3, <2>4, <2>5 DEF Next
<1> QED BY <1>1, <1>2

\* The estimator solves every batch with the anchors its rows were collected under:
\* ApplyStaticAnchors, ClearDynamicAnchorRuntimeState, maybeUpdateDynamicPositions and
\* what they interrupt leave no rows of other anchors in the buffer.  Dynamic
\* positioning may be switched on once, and any other commands come in any number.
THEOREM SolvedWithOneGeometry == Spec => []OneGeometry
<1>1. TypeOK /\ GeometryInv => OneGeometry
  BY DEF GeometryInv, Data, Rows, OneGeometry
<1> QED BY <1>1, TypesInit, TypesNext, GeometryInit, GeometryNext, PTL DEF Spec

-----------------------------------------------------------------------------
\* Accesses that leave the static anchors alone, and those that leave what is live.
NoAnchors == Accesses \ {"beacon static", "live static"}
Keeps == Accesses \ {"clear live"}
Anchors == <<"beacon static", "live static", "request reinit">>

\* The static anchors are still to be made live.
Anchoring(s) ==
  \/ s = <<"live static", "request reinit">>
  \/ \E u \in Seq(NoAnchors \cap Keeps) : s = u \o Anchors

\* What is live is what is configured, and stays so.
InForce == param.enable => live = param.static /\ cmd.todo \in Seq(Keeps)

\* So it is in a rollback, and in a command that makes no anchors live; one that does
\* has the configuration before it to fall back to.
Statically ==
  IF cmd.kind = "rollback"
  THEN InForce /\ (~Idle => param = cmd.prev)
  ELSE \/ cmd.todo \in Seq(NoAnchors) /\ InForce
       \/ Anchoring(cmd.todo) /\ (cmd.prev.enable => live = cmd.prev.static)

LEMMA TwoOrThree ==
  ASSUME NEW X, NEW a \in X, NEW b \in X, NEW c \in X
  PROVE  /\ <<b, c>> \in Seq(X) /\ <<b, c>> # <<>>
         /\ Head(<<b, c>>) = b /\ Tail(<<b, c>>) = <<c>>
         /\ <<a, b, c>> \in Seq(X) /\ <<a, b, c>> # <<>>
         /\ Head(<<a, b, c>>) = a /\ Tail(<<a, b, c>>) = <<b, c>>
<1> DEFINE s == <<a, b, c>>
           u == <<b, c>>
<1>1. s \in Seq(X) /\ u \in Seq(X) /\ s # <<>> /\ u # <<>>
  OBVIOUS
<1>2. Head(s) = a /\ Head(u) = b
  OBVIOUS
<1>3. Len(s) = 3 /\ Len(u) = 2
  OBVIOUS
<1>4. s[1] = a /\ s[2] = b /\ s[3] = c /\ u[1] = b /\ u[2] = c
  OBVIOUS
<1>5. Tail(u) = <<c>>
  OBVIOUS
<1> HIDE DEF s, u
<1>6. Tail(s) \in Seq(X) /\ Len(Tail(s)) = 2 /\ \A i \in 1 .. 2 : Tail(s)[i] = s[i + 1]
  BY <1>1, <1>3
<1>7. Tail(s)[1] = u[1] /\ Tail(s)[2] = u[2]
  BY <1>4, <1>6
<1>8. \A i \in 1 .. 2 : Tail(s)[i] = u[i]
  <2>1. \A i \in 1 .. 2 : i = 1 \/ i = 2
    OBVIOUS
  <2> QED BY <1>7, <2>1
<1>9. Tail(s) = u
  BY <1>1, <1>3, <1>6, <1>8, SeqEqual
<1> QED BY <1>1, <1>2, <1>5, <1>9 DEF s, u

LEMMA AnchorParts ==
  /\ Anchors \in Seq(Keeps) /\ Anchors # <<>> /\ Head(Anchors) = "beacon static"
  /\ Tail(Anchors) = <<"live static", "request reinit">>
  /\ <<"live static", "request reinit">> # <<>>
  /\ Head(<<"live static", "request reinit">>) = "live static"
  /\ Tail(<<"live static", "request reinit">>) = <<"request reinit">>
<1> DEFINE a == "beacon static"
           b == "live static"
           c == "request reinit"
<1>1. a \in Keeps /\ b \in Keeps /\ c \in Keeps
  BY DEF Keeps, Accesses
<1>2. Anchors = <<a, b, c>>
  BY DEF Anchors
<1> HIDE DEF a, b, c
<1>3. /\ Anchors \in Seq(Keeps) /\ Anchors # <<>> /\ Head(Anchors) = a
      /\ Tail(Anchors) = <<b, c>>
      /\ <<b, c>> # <<>> /\ Head(<<b, c>>) = b /\ Tail(<<b, c>>) = <<c>>
  BY <1>1, <1>2, TwoOrThree
<1> QED BY <1>3 DEF a, b, c

LEMMA AnchoringParts ==
  ASSUME NEW s \in Seq(Accesses), Anchoring(s)
  PROVE  /\ s # <<>> /\ Head(s) # "clear live"
         /\ \/ Head(s) = "live static" /\ Tail(s) = <<"request reinit">>
            \/ Head(s) # "live static" /\ Anchoring(Tail(s))
<1>1. CASE s = <<"live static", "request reinit">>
  BY <1>1, AnchorParts
<1>2. ASSUME NEW u \in Seq(NoAnchors \cap Keeps), s = u \o Anchors
      PROVE  /\ s # <<>> /\ Head(s) # "clear live"
             /\ Head(s) # "live static" /\ Anchoring(Tail(s))
  <2>1. CASE u = <<>>
    <3>1. s = Anchors
      BY <1>2, <2>1, AnchorParts, ConcatEmptySeq
    <3> QED BY <3>1, AnchorParts DEF Anchoring
  <2>2. CASE u # <<>>
    <3> DEFINE X == NoAnchors \cap Keeps
               t == Tail(u)
               a == Anchors
    <3>1. Head(u) \in X /\ t \in Seq(X) /\ a \in Seq(Accesses) /\ u \in Seq(Accesses)
      <4>1. X \subseteq Accesses /\ Keeps \subseteq Accesses
        BY DEF NoAnchors, Keeps
      <4>2. u \in Seq(Accesses) /\ a \in Seq(Accesses)
        BY <4>1, AnchorParts, SeqMonotonic
      <4> QED BY <2>2, <4>1, <4>2, TailParts
    <3> HIDE DEF X, a
    <3>2. u \o a # <<>> /\ Head(u \o a) = Head(u) /\ Tail(u \o a) = t \o a
      BY <2>2, <3>1
    <3>3. Head(u) # "clear live" /\ Head(u) # "live static"
      BY <3>1 DEF X, NoAnchors, Keeps
    <3>4. Anchoring(t \o a)
      BY <3>1 DEF Anchoring, X, a
    <3> QED BY <1>2, <3>2, <3>3, <3>4 DEF a
  <2> QED BY <2>1, <2>2
<1> QED BY <1>1, <1>2 DEF Anchoring

LEMMA Followers ==
  /\ <<"request reinit">> \in Seq(NoAnchors) /\ <<"request reinit">> \in Seq(Keeps)
  /\ <<>> \in Seq(NoAnchors) /\ <<>> \in Seq(Keeps) /\ ~Anchoring(<<>>)
  /\ NoAnchors \subseteq Accesses /\ Keeps \subseteq Accesses
<1>1. "request reinit" \in NoAnchors /\ "request reinit" \in Keeps
  BY DEF NoAnchors, Keeps, Accesses
<1>2. ~Anchoring(<<>>)
  <2>1. <<>> \in Seq(Accesses)
    OBVIOUS
  <2> QED BY <2>1, AnchoringParts
<1>3. NoAnchors \subseteq Accesses /\ Keeps \subseteq Accesses
  BY DEF NoAnchors, Keeps
<1> HIDE DEF NoAnchors, Keeps
<1> QED BY <1>1, <1>2, <1>3, Single

\* What is done to static anchors by a command, and by what undoes it.
LEMMA StaticPrograms ==
  ASSUME NEW p \in Params, ~p.dyn
  PROVE  /\ Anchoring(Program("commit", p)) /\ Anchoring(Program("enable", p))
         /\ Program("disable", p) \in Seq(NoAnchors)
         /\ \A kind : p.enable => Rollback(kind, p) \in Seq(Keeps)
<1> DEFINE X == NoAnchors \cap Keeps
           off == SwitchOff
           b == <<"beacon static">>
           t == Transaction(p)
<1>1. t = Anchors
  BY DEF Transaction, Anchors
<1>2. off \in Seq(X)
  BY DEF SwitchOff, Clearing, NoAnchors, Keeps, Accesses
<1>3. <<>> \in Seq(X) /\ X \subseteq Keeps
  OBVIOUS
<1>4. Program("commit", p) = t /\ Program("enable", p) = off \o t
  BY DEF Program
<1>5. t = <<>> \o Anchors
  BY <1>1, AnchorParts, ConcatEmptySeq
<1>6. Anchoring(t) /\ Anchoring(off \o t)
  BY <1>1, <1>2, <1>3, <1>5 DEF Anchoring
<1>7. Program("disable", p) \in Seq(NoAnchors)
  <2>1. ClearingLive \in Seq(NoAnchors)
    BY DEF ClearingLive, Clearing, NoAnchors, Accesses
  <2> QED BY <2>1 DEF Program
<1>8. ASSUME NEW kind, p.enable PROVE Rollback(kind, p) \in Seq(Keeps)
  <2>1. b \in Seq(Keeps) /\ t \in Seq(Keeps) /\ <<>> \in Seq(Keeps)
    BY <1>1, AnchorParts, Followers, Single DEF Keeps, Accesses
  <2>2. off \in Seq(Keeps)
    BY <1>2, <1>3, SeqMonotonic
  <2>3. Rollback(kind, p) \in {off \o b \o <<>>, off \o t \o <<>>}
    BY <1>8 DEF Rollback, AfterAnchors
  <2> HIDE DEF off, b, t
  <2>4. off \o b \in Seq(Keeps) /\ off \o t \in Seq(Keeps)
    BY <2>1, <2>2, Joined
  <2>5. off \o b \o <<>> \in Seq(Keeps) /\ off \o t \o <<>> \in Seq(Keeps)
    BY <2>1, <2>4, Joined
  <2> QED BY <2>3, <2>5
<1> QED BY <1>4, <1>6, <1>7, <1>8

\* A step that does not touch what is live.
LEMMA StaticByOthers ==
  ASSUME Statically, UNCHANGED <<param, live, cmd>>
  PROVE  Statically'
BY DEF Statically, InForce, Idle, Anchoring

LEMMA StaticByDoing ==
  ASSUME TypeOK, Statically, cmd.todo # <<>>,
         cmd'.todo = Tail(cmd.todo), cmd'.kind = cmd.kind, cmd'.prev = cmd.prev,
         param' = param,
         IF Head(cmd.todo) = "live static" THEN live' = param.static
         ELSE live' = live \/ Head(cmd.todo) = "clear live"
  PROVE  Statically'
<1> DEFINE s == cmd.todo
<1>1. /\ s \in Seq(Accesses) /\ ~Idle
      /\ \A X \in SUBSET Accesses : s \in Seq(X) => Head(s) \in X /\ Tail(s) \in Seq(X)
  BY TailParts DEF TypeOK, Idle
<1>2. InForce => InForce'
  <2> SUFFICES ASSUME InForce, param.enable PROVE live' = param.static /\ Tail(s) \in Seq(Keeps)
    BY DEF InForce
  <2>1. live = param.static /\ s \in Seq(Keeps)
    BY DEF InForce
  <2>2. Head(s) \in Keeps /\ Tail(s) \in Seq(Keeps)
    BY <1>1, <2>1, Followers
  <2>3. Head(s) # "clear live"
    BY <2>2 DEF Keeps
  <2> QED BY <2>1, <2>2, <2>3
<1>3. CASE cmd.kind = "rollback"
  BY <1>1, <1>2, <1>3 DEF Statically
<1>4. CASE cmd.kind # "rollback" /\ s \in Seq(NoAnchors) /\ InForce
  <2>1. Tail(s) \in Seq(NoAnchors)
    BY <1>1, <1>4, Followers
  <2> QED BY <1>2, <1>4, <2>1 DEF Statically
<1>5. CASE /\ cmd.kind # "rollback" /\ Anchoring(s)
           /\ (cmd.prev.enable => live = cmd.prev.static)
  <2>1. CASE Head(s) = "live static" /\ Tail(s) = <<"request reinit">>
    BY <1>5, <2>1, Followers DEF Statically, InForce
  <2>2. CASE Head(s) # "live static" /\ Anchoring(Tail(s))
    <3>1. live' = live
      BY <1>1, <1>5, <2>2, AnchoringParts
    <3> QED BY <1>5, <2>2, <3>1 DEF Statically
  <2> QED BY <1>1, <1>5, <2>1, <2>2, AnchoringParts
<1> QED BY <1>3, <1>4, <1>5 DEF Statically

\* What is undone was not dynamic, unless dynamic positions have been switched on.
LEMMA AccessKeepsDynamic ==
  ASSUME TypeOK, Order, Access, ~OnGiven, ~param'.dyn
  PROVE  ~param.dyn
<1>1. CASE UNCHANGED param
  BY <1>1
<1>2. CASE ~UNCHANGED param
  <2>1. Fails
    BY <1>2 DEF Access, SwitchUse, ClearFlags, ResetCalc, ClearLive, ClearBeacon, BusyClear,
       BeaconStatic, LiveStatic, RequestReinit, BeaconDynamic, TellBeacon, Doing, Skipping
  <2>2. cmd.kind # "rollback" /\ param' = cmd.prev /\ ~Idle
    BY <1>2, <2>1, FailsParts DEF Idle
  <2> QED BY <2>2 DEF Order, SwitchedOn
<1> QED BY <1>1, <1>2

LEMMA StaticByAccess ==
  ASSUME TypeOK, Order, ~param.dyn, Statically, Access, ~OnGiven, ~param'.dyn
  PROVE  Statically'
<1>0. cmd.todo \in Seq(Accesses) /\ cmd \in CmdType
  BY DEF TypeOK, CmdType
<1>2. \A access \in {"use", "init calc", "beacon dynamic", "tell beacon"} :
        cmd.todo # <<>> => Head(cmd.todo) # access
  <2>1. cmd.todo \in Seq(StaticAccesses)
    BY DEF Order, Steps
  <2>2. cmd.todo # <<>> => Head(cmd.todo) \in StaticAccesses
    BY <1>0, <2>1, TailParts, SetsOfAccesses
  <2> QED BY <2>2 DEF StaticAccesses
<1>3. ASSUME NEW access, Doing(access), access # "live static",
             UNCHANGED live \/ access = "clear live"
      PROVE  Statically'
  <2>1. /\ cmd.todo # <<>> /\ Head(cmd.todo) = access /\ cmd'.todo = Tail(cmd.todo)
        /\ cmd'.kind = cmd.kind /\ cmd'.prev = cmd.prev /\ param' = param
    BY <1>3, Doings
  <2>2. live' = live \/ Head(cmd.todo) = "clear live"
    BY <1>3, <2>1
  <2>3. Head(cmd.todo) # "live static"
    BY <1>3, <2>1
  <2> QED BY <2>1, <2>2, <2>3, StaticByDoing
<1>4. CASE SwitchUse
  <2>1. UNCHANGED live
    BY <1>4 DEF SwitchUse, shared
  <2>2. \E access \in {"use", "do not use", "listen", "do not listen"} : Doing(access)
    BY <1>4 DEF SwitchUse
  <2> QED BY <1>3, <2>1, <2>2
<1>5. CASE ClearFlags
  BY <1>3, <1>5 DEF ClearFlags
<1>6. CASE ResetCalc
  BY <1>3, <1>6 DEF ResetCalc, shared
<1>7. CASE ClearLive
  BY <1>3, <1>7 DEF ClearLive
<1>8. CASE ClearBeacon
  BY <1>3, <1>8 DEF ClearBeacon
<1>9. CASE BusyClear
  <2>1. Len(RuntimeConfig) \in Nat /\ 1 \in Nat
    BY Pieces
  <2>2. ~Skipping("init calc", Len(RuntimeConfig))
    BY <1>2 DEF Skipping, Idle
  <2>3. PICK access \in {"reset calc", "clear live", "clear beacon"} : Skipping(access, 1)
    BY <1>9, <2>2 DEF BusyClear
  <2>4. /\ cmd.todo # <<>> /\ Head(cmd.todo) = access
        /\ cmd'.todo = SubSeq(cmd.todo, 1 + 1, Len(cmd.todo)) /\ cmd'.kind = cmd.kind
        /\ cmd'.prev = cmd.prev /\ UNCHANGED <<param, live>>
    BY <2>1, <2>3, Skippings DEF shared
  <2>5. SubSeq(cmd.todo, 1 + 1, Len(cmd.todo)) = Tail(cmd.todo)
    BY <1>0, <2>4, SkippedOne
  <2> QED BY <2>3, <2>4, <2>5, StaticByDoing
<1>10. CASE BeaconStatic
  BY <1>3, <1>10 DEF BeaconStatic
<1>11. CASE LiveStatic
  <2>1. Doing("live static") /\ live' = param.static
    BY <1>11 DEF LiveStatic
  <2> QED BY <2>1, Doings, StaticByDoing
<1>12. CASE RequestReinit
  BY <1>3, <1>12 DEF RequestReinit
<1>13. ~BeaconDynamic /\ ~TellBeacon
  BY <1>2 DEF BeaconDynamic, TellBeacon, Idle
<1>14. CASE Fails
  <2>1. /\ cmd.todo # <<>> /\ cmd'.kind = "rollback" /\ cmd'.prev = cmd.prev
        /\ UNCHANGED live
    BY <1>14, FailsParts DEF shared
  <2>2. CASE cmd.kind = "rollback"
    <3>1. /\ param = cmd.prev /\ param' = param /\ cmd'.todo = AfterAnchors(cmd.prev)
          /\ InForce
      BY <1>14, <2>1, <2>2, FailsParts DEF Statically, Idle
    <3>2. param.enable => cmd'.todo \in Seq(Keeps)
      BY <3>1, Followers DEF AfterAnchors
    <3>3. InForce'
      BY <2>1, <3>1, <3>2 DEF InForce
    <3> QED BY <2>1, <3>1, <3>3 DEF Statically
  <2>3. CASE cmd.kind # "rollback"
    <3>1. param' = cmd.prev /\ cmd'.todo = Rollback(cmd.kind, cmd.prev)
      BY <1>14, <2>3, FailsParts
    <3>2. cmd.prev \in Params /\ ~cmd.prev.dyn
      BY <1>0, <3>1 DEF CmdType
    <3>3. ~DynamicRefused
      <4> SUFFICES ASSUME DynamicRefused PROVE FALSE
        OBVIOUS
      <4>1. cmd.kind \in {"dynamic on", "layout"} /\ cmd.todo = Program(cmd.kind, param)
        BY DEF DynamicRefused
      <4>2. CASE cmd.kind = "dynamic on"
        <5> DEFINE u == SwitchOn
                   t == Transaction(param)
        <5>1. cmd.todo = u \o t /\ ~use /\ t \in Seq(Accesses)
          <6>1. t \in Seq(StaticAccesses)
            BY TransactionParts DEF TypeOK
          <6>2. Fresh
            BY DEF Order, SwitchedOn
          <6> QED BY <4>1, <4>2, <6>1, <6>2, SetsOfAccesses, SeqMonotonic DEF Program, Fresh
        <5>2. u \in Seq(Accesses) /\ BeforeUse(u)
          BY <5>1, SwitchOnParts, SetsOfAccesses, SeqMonotonic
        <5> HIDE DEF u, t
        <5>3. BeforeUse(cmd.todo)
          BY <5>1, <5>2, Joined
        <5> QED BY <1>0, <1>2, <2>1, <5>3, HeadOnly
      <4>3. CASE cmd.kind = "layout"
        <5> DEFINE u == RuntimeConfig
                   t == <<"clear beacon">>
        <5>1. u # <<>> /\ Head(u) = "init calc"
          BY DEF RuntimeConfig
        <5>2. u \in Seq(Accesses) /\ t \in Seq(Accesses)
          BY DEF RuntimeConfig, Accesses
        <5>3. cmd.todo = u \o t
          BY <4>1, <4>3 DEF Program
        <5> HIDE DEF u, t
        <5>4. Head(u \o t) = Head(u)
          BY <5>1, <5>2, HeadJoined
        <5> QED BY <1>2, <2>1, <5>1, <5>3, <5>4
      <4> QED BY <4>1, <4>2, <4>3
    <3>4. Head(cmd.todo) \in {"beacon static", "live static"}
      BY <1>2, <1>14, <2>1, <3>3 DEF Fails, StaticRefused
    <3>5. cmd.todo \notin Seq(NoAnchors)
      <4>1. cmd.todo \in Seq(NoAnchors) => Head(cmd.todo) \in NoAnchors
        BY <1>0, <2>1, TailParts, Followers
      <4> QED BY <3>4, <4>1 DEF NoAnchors
    <3>6. cmd.prev.enable => live = cmd.prev.static
      BY <2>3, <3>5 DEF Statically
    <3>7. cmd.prev.enable => cmd'.todo \in Seq(Keeps)
      BY <3>1, <3>2, StaticPrograms
    <3>8. InForce'
      BY <2>1, <3>1, <3>6, <3>7 DEF InForce
    <3> QED BY <2>1, <3>1, <3>8 DEF Statically
  <2> QED BY <2>2, <2>3
<1> QED BY <1>4, <1>5, <1>6, <1>7, <1>8, <1>9, <1>10, <1>11, <1>12, <1>13, <1>14
        DEF Access

LEMMA StaticByCommand ==
  ASSUME TypeOK, ~param.dyn, Statically, NEW kind \in Commands, NEW p \in Stored(kind),
         kind \notin {"dynamic on", "dynamic off"}, SetParam(kind, p)
  PROVE  Statically'
<1>1. /\ cmd.todo = <<>> /\ param' = p
      /\ cmd'.todo = Program(kind, p) /\ cmd'.kind = kind /\ cmd'.prev = param
      /\ UNCHANGED live
  BY SetParamTypes DEF SetParam, shared
<1>2. kind \in {"commit", "disable", "enable"} /\ kind # "rollback"
  BY GeometryTypes, StoredParams DEF Kinds
<1>3. p \in Params /\ ~p.dyn /\ (kind = "disable" => ~p.enable)
  BY <1>2, StoredParams DEF Kinds
<1>4. param.enable => live = param.static
  BY <1>1, Followers DEF Statically, InForce
<1>5. CASE kind = "disable"
  <2>1. cmd'.todo \in Seq(NoAnchors)
    BY <1>1, <1>3, <1>5, StaticPrograms
  <2> QED BY <1>1, <1>2, <1>3, <1>5, <2>1 DEF Statically, InForce
<1>6. CASE kind # "disable"
  <2>1. Anchoring(cmd'.todo)
    BY <1>1, <1>2, <1>3, <1>6, StaticPrograms
  <2>2. Anchoring(cmd.todo)'
    BY <2>1 DEF Anchoring
  <2>3. cmd'.prev.enable => live' = cmd'.prev.static
    BY <1>1, <1>4
  <2> QED BY <1>1, <1>2, <2>2, <2>3 DEF Statically
<1> QED BY <1>5, <1>6

LEMMA StaticByTasks ==
  ASSUME Fresh, Statically,
         \/ Produce \/ Distances \/ Calculate \/ Publish \/ LoopBusy
         \/ Announce \/ CopyForBeacon \/ Tell \/ Retract
         \/ Begin \/ ReadHoldoff \/ ResetHoldoff \/ TakeReinit \/ Copy \/ Solve
         \/ HoldoffPasses
  PROVE  UNCHANGED param /\ Statically'
<1>1. UNCHANGED <<param, live, cmd>>
  <2>1. CASE Produce \/ Distances \/ LoopBusy \/ CopyForBeacon \/ Tell \/ HoldoffPasses
    BY <2>1 DEF Produce, Distances, LoopBusy, CopyForBeacon, Tell, HoldoffPasses, Looping, shared
  <2>2. ~Calculate /\ ~Publish /\ ~Announce /\ ~Retract
    BY DEF Fresh, Calculate, Publish, Announce, Retract, Looping
  <2>3. CASE Begin \/ ReadHoldoff \/ ResetHoldoff \/ TakeReinit \/ Copy \/ Solve
    BY <2>3 DEF Begin, ReadHoldoff, ResetHoldoff, TakeReinit, Copy, Solve, Estimating
  <2> QED BY <2>1, <2>2, <2>3
<1> QED BY <1>1, StaticByOthers

LEMMA NeverIsOnce == NeverSwitched => OneSwitch /\ ~OnGiven
BY DEF NeverSwitched, OneSwitch, OnGiven, ToSet

\* The inductive invariant for static positions.
StaticInv == NeverSwitched /\ ~param.dyn => Statically

LEMMA StaticInit == Init => StaticInv
<1> SUFFICES ASSUME Init, ~param.dyn PROVE Statically
  BY DEF StaticInv
<1>1. cmd.todo = <<>> /\ cmd.kind = "none" /\ live = param.static
  BY DEF Init
<1> QED BY <1>1, Followers DEF Statically, InForce

LEMMA StaticNext ==
  TypeOK /\ TypeOK' /\ GeometryInv /\ StaticInv /\ [Next]_vars => StaticInv'
<1> SUFFICES ASSUME TypeOK, TypeOK', GeometryInv, StaticInv, [Next]_vars,
                    NeverSwitched', ~param'.dyn
             PROVE  Statically'
  BY DEF StaticInv
<1>1. CASE Command
  <2>1. PICK kind \in Commands : \E p \in Stored(kind) : SetParam(kind, p)
    BY <1>1 DEF Command
  <2>2. PICK p \in Stored(kind) : SetParam(kind, p)
    BY <2>1
  <2>3. NeverSwitched /\ kind \notin {"dynamic on", "dynamic off"} /\ param' = p
    BY <2>2, GivenAppended, SetParamTypes
  <2>4. ~param.dyn
    BY <2>3, StoredParams, GeometryTypes
  <2>5. Statically
    BY <2>3, <2>4 DEF StaticInv
  <2> QED BY <2>2, <2>3, <2>4, <2>5, StaticByCommand
<1>2. CASE ~Command
  <2>1. NeverSwitched
    BY <1>2, OnlyCommandsAreGiven DEF NeverSwitched
  <2>2. Order /\ ~OnGiven
    BY <2>1, NeverIsOnce DEF GeometryInv
  <2>3. ~param.dyn => Fresh /\ Statically
    BY <2>1, <2>2 DEF StaticInv, Order, SwitchedOn
  <2>4. CASE Access
    <3>1. ~param.dyn
      BY <2>2, <2>4, AccessKeepsDynamic
    <3> QED BY <2>2, <2>3, <2>4, <3>1, StaticByAccess
  <2>5. CASE \/ Produce \/ Distances \/ Calculate \/ Publish \/ LoopBusy
             \/ Announce \/ CopyForBeacon \/ Tell \/ Retract
             \/ Begin \/ ReadHoldoff \/ ResetHoldoff \/ TakeReinit \/ Copy \/ Solve
             \/ HoldoffPasses
    <3>1. UNCHANGED param
      BY <2>5 DEF Produce, Distances, Calculate, Publish, LoopBusy, Announce, CopyForBeacon,
         Tell, Retract, Looping, Begin, ReadHoldoff, ResetHoldoff, TakeReinit, Copy, Solve,
         Estimating, HoldoffPasses
    <3> QED BY <2>3, <2>5, <3>1, StaticByTasks
  <2>6. CASE UNCHANGED vars
    BY <2>3, <2>6, StaticByOthers DEF vars, shared
  <2> QED BY <1>2, <2>4, <2>5, <2>6 DEF Next
<1> QED BY <1>1, <1>2

\* With static positions (dynamicAnchorPosEnabled = 0, uwb_params.hpp) the tag rests
\* with the configured anchors live, after any number of commits, of disabling and
\* enabling, and of rollbacks of these (SetParam, ApplyTagRuntimeAnchorsTransaction),
\* as long as dynamic positions have never been switched.
THEOREM StaticAnchorsStay == Spec => []StaticUnlessSwitched
<1>1. TypeOK /\ GeometryInv /\ StaticInv => StaticUnlessSwitched
  <2> SUFFICES ASSUME StaticInv, NeverSwitched, Resting, param.enable, ~param.dyn
               PROVE  live = param.static
    BY DEF StaticUnlessSwitched, StaticWhenOff
  <2>1. Statically /\ cmd.todo = <<>>
    BY DEF StaticInv, Resting, Idle
  <2> QED BY <2>1, Followers DEF Statically, InForce
<1> QED BY <1>1, TypesInit, TypesNext, GeometryInit, GeometryNext, StaticInit, StaticNext,
        PTL DEF Spec

-----------------------------------------------------------------------------
(* The application's output.                                               *)


\* A spell without samples too far apart is at least as long as the time since
\* Update last found the device unhealthy.
SpellIsMeasured ==
  changes = 0 =>
    IF params.output = "MAVLINK"
    THEN /\ age.unhealthy <= age.good + 1
         /\ (ran \/ step = "fallback") /\ age.sample > HealthyMin => age.unhealthy = 0
    ELSE step = "idle"

\* While the origin could be sent, Update finds the device healthy.
StaysReady ==
  age.ready >= 1 =>
    /\ params.output = "MAVLINK" /\ "sample" \in ever
    /\ age.sample <= HealthyMin /\ age.heard < HbTimeout
    /\ step = "health" => ~ahead
    /\ age.unhealthy >= Lower(age.ready, OriginAfter + 1)

\* So once the spell is over every pass attempts it, or has done so before.
IsAttempted ==
  /\ "sent" \in ever => age.attempt <= age.sent \/ age.sent >= Resend
  /\ age.ready > OriginAfter /\ (ran \/ step = "fallback") => age.attempt <= Resend
  /\ age.ready > OriginAfter + 1 => age.attempt <= Resend + 1

\* While the rangefinder is heard, every sample carries a height, and a pass that
\* has read a distance leaves no height older than the dropout limit.
HeightsComeWith ==
  age.steady >= 1 =>
    /\ params.output = "MAVLINK" /\ "range" \in ever /\ age.range <= 1
    /\ params.forward /\ age.range = 0 => age.height = 0
    /\ age.sample < age.steady /\ age.sample <= Dropout => age.height <= age.sample
    /\ age.steady > Dropout /\ step = "idle" /\ age.range = 0 => age.height <= Dropout
    /\ age.steady > Dropout + 1 => age.height <= Dropout + 1

\* The inductive invariant of the output.
OutputInv == OTypeOK /\ SpellIsMeasured /\ StaysReady /\ IsAttempted /\ HeightsComeWith

-----------------------------------------------------------------------------
LEMMA LimitsAreNumbers ==
  /\ HealthyMin \in Nat /\ HbInterval \in Nat /\ HbTimeout \in Nat
  /\ OriginAfter \in Nat /\ Retry \in Nat /\ Resend \in Nat /\ RfStale \in Nat
  /\ Dropout \in Nat /\ MaxChanges \in Nat
  /\ Retry <= Resend /\ RfStale >= 1
BY LimitsAssumption

LEMMA StampNames ==
  Stamps = {"sample", "beat", "heard", "unhealthy", "attempt", "sent", "range", "good",
            "ready", "steady", "height"}
BY DEF Stamps, Cap

LEMMA CapsAreNumbers ==
  \A s \in Stamps : Cap[s] \in Nat
<1>1. ASSUME NEW s \in Stamps PROVE Cap[s] \in Nat
  BY <1>1, LimitsAreNumbers, StampNames DEF Cap
<1> QED BY <1>1

Ages == {a \in [Stamps -> Nat] : \A s \in Stamps : a[s] <= Cap[s]}

LEMMA AgeTypes ==
  ASSUME NEW a \in Ages
  PROVE  /\ a.sample \in Nat /\ a.beat \in Nat /\ a.heard \in Nat /\ a.unhealthy \in Nat
         /\ a.attempt \in Nat /\ a.sent \in Nat /\ a.range \in Nat /\ a.good \in Nat
         /\ a.ready \in Nat /\ a.steady \in Nat /\ a.height \in Nat
BY StampNames DEF Ages

\* Stamping the events S: their ages are zero, the others stay.
LEMMA RestartIs ==
  ASSUME age \in Ages, NEW S
  PROVE  /\ Restart(S) \in Ages
         /\ \A s \in Stamps : Restart(S)[s] = IF s \in S THEN 0 ELSE age[s]
<1>1. \A s \in Stamps : Restart(S)[s] = IF s \in S THEN 0 ELSE age[s]
  BY DEF Restart
<1>2. \A s \in Stamps : age[s] \in Nat /\ age[s] <= Cap[s] /\ 0 <= Cap[s]
  BY CapsAreNumbers DEF Ages
<1>3. \A s \in Stamps :
        Restart(S)[s] \in Nat /\ Restart(S)[s] <= Cap[s]
  BY <1>1, <1>2
<1>4. Restart(S) \in [Stamps -> Nat]
  BY <1>3 DEF Restart
<1> QED BY <1>1, <1>3, <1>4 DEF Ages

\* A tick: the ages that go on grow by one up to their caps.
LEMMA TickIs ==
  ASSUME age \in Ages, Tick
  PROVE  /\ age' \in Ages
         /\ \A s \in Stamps : age'[s] =
                 IF Holds(s) THEN Lower(age[s] + 1, Cap[s]) ELSE 0
<1>1. \A s \in Stamps : age'[s] =
           IF Holds(s) THEN Lower(age[s] + 1, Cap[s]) ELSE 0
  BY DEF Tick
<1>2. \A s \in Stamps : age[s] \in Nat /\ age[s] <= Cap[s] /\ Cap[s] \in Nat
  BY CapsAreNumbers DEF Ages
<1>3. \A s \in Stamps : age'[s] \in Nat /\ age'[s] <= Cap[s]
  BY <1>1, <1>2 DEF Lower
<1>4. age' \in [Stamps -> Nat]
  BY <1>3 DEF Tick
<1> QED BY <1>1, <1>3, <1>4 DEF Ages

-----------------------------------------------------------------------------
\* What a step keeps when it stamps no events but those of S.
Stamped(S) == \A s \in Stamps : age'[s] = IF s \in S THEN 0 ELSE age[s]

LEMMA SendSampleInv ==
  ASSUME OutputInv, SendSample
  PROVE  OutputInv'
<1>. USE LimitsAreNumbers
<1>1. PICK later \in BOOLEAN, carried \in BOOLEAN :
        /\ age' = Restart({"sample"} \cup (IF later THEN {"ready"} ELSE {})
                                  \cup IF carried THEN {"height"} ELSE {})
        /\ ahead' = (ahead \/ later)
        /\ step = "idle" => ~later
        /\ carried = (params.output = "MAVLINK"
                      /\ (params.z = "UWB" \/ GetRangefinderZ # "NAN"))
  <2>1. PICK later \in IF step = "idle" THEN {FALSE} ELSE BOOLEAN :
          /\ age' = Restart({"sample"} \cup (IF later THEN {"ready"} ELSE {})
                \cup IF params.output = "MAVLINK"
                        /\ (params.z = "UWB" \/ GetRangefinderZ # "NAN")
                     THEN {"height"} ELSE {})
          /\ ahead' = (ahead \/ later)
    BY DEF SendSample
  <2> DEFINE carried == params.output = "MAVLINK"
                          /\ (params.z = "UWB" \/ GetRangefinderZ # "NAN")
  <2>2. later \in BOOLEAN /\ (step = "idle" => ~later)
    BY <2>1
  <2>3. carried \in BOOLEAN
    OBVIOUS
  <2> QED BY <2>1, <2>2, <2>3
<1>2. /\ params.output # "OTHER"
      /\ ever' = ever \cup {"sample"}
      /\ params' = params /\ step' = step /\ ran' = ran /\ changes' = changes
  BY DEF SendSample
<1>3. age \in Ages
  BY DEF OutputInv, OTypeOK, Ages
<1>4. age' \in Ages /\ Stamped({"sample"} \cup (IF later THEN {"ready"} ELSE {})
                                  \cup IF carried THEN {"height"} ELSE {})
  BY <1>1, <1>3, RestartIs DEF Stamped
<1>5. /\ age'.sample = 0 /\ age'.unhealthy = age.unhealthy /\ age'.good = age.good
      /\ age'.heard = age.heard /\ age'.attempt = age.attempt /\ age'.sent = age.sent
      /\ age'.range = age.range /\ age'.steady = age.steady
      /\ age'.ready = (IF later THEN 0 ELSE age.ready)
      /\ age'.height = (IF carried THEN 0 ELSE age.height)
  BY <1>4, StampNames DEF Stamped
<1>6. OTypeOK'
  BY <1>1, <1>2, <1>4 DEF OutputInv, OTypeOK, Ages, Events
<1>7. SpellIsMeasured'
  BY <1>2, <1>5 DEF OutputInv, SpellIsMeasured
<1>8. StaysReady'
  BY <1>1, <1>2, <1>3, <1>5, AgeTypes DEF OutputInv, StaysReady
<1>9. IsAttempted'
  BY <1>2, <1>3, <1>5, AgeTypes DEF OutputInv, IsAttempted
<1>10. HeightsComeWith'
  <2>1. SUFFICES ASSUME age.steady >= 1 PROVE HeightsComeWith'
    BY <1>5 DEF HeightsComeWith
  <2>2. IsRangefinderHealthy
    BY <1>3, <2>1, AgeTypes
       DEF OutputInv, HeightsComeWith, IsRangefinderHealthy
  <2>3. params.z # "UWB" => params.z = "RANGEFINDER"
    BY DEF OutputInv, OTypeOK, OutputParams
  <2>4. carried
    BY <1>1, <2>1, <2>2, <2>3 DEF OutputInv, HeightsComeWith, GetRangefinderZ
  <2> QED BY <1>2, <1>3, <1>5, <2>1, <2>4, AgeTypes DEF OutputInv, HeightsComeWith
<1> QED BY <1>6, <1>7, <1>8, <1>9, <1>10 DEF OutputInv

LEMMA CaptureInv ==
  ASSUME OutputInv, Capture
  PROVE  OutputInv'
<1>. USE LimitsAreNumbers
<1>1. PICK message \in BOOLEAN, beat \in BOOLEAN :
        /\ age' = Restart(Ranged(message) \cup IF beat THEN {"beat"} ELSE {})
        /\ ever' = IF message THEN ever \cup {"range"} ELSE ever
  <2>1. PICK message \in BOOLEAN :
          /\ age' = Restart(Ranged(message) \cup
                      IF params.output = "MAVLINK" /\ age.beat > HbInterval
                      THEN {"beat"} ELSE {})
          /\ ever' = IF message THEN ever \cup {"range"} ELSE ever
    BY DEF Capture
  <2> QED BY <2>1
<1>2. /\ step = "idle" /\ ahead' = FALSE
      /\ params' = params /\ changes' = changes
      /\ params.output = "MAVLINK" => step' = "health" /\ ran' = ran
      /\ params.output # "MAVLINK" => step' = "idle" /\ ran' = TRUE
  BY DEF Capture
<1>3. age \in Ages
  BY DEF OutputInv, OTypeOK, Ages
<1>4. age' \in Ages /\ Stamped(Ranged(message) \cup IF beat THEN {"beat"} ELSE {})
  BY <1>1, <1>3, RestartIs DEF Stamped
<1>5. /\ age'.sample = age.sample /\ age'.unhealthy = age.unhealthy /\ age'.good = age.good
      /\ age'.heard = age.heard /\ age'.attempt = age.attempt /\ age'.sent = age.sent
      /\ age'.steady = age.steady /\ age'.ready = age.ready
  BY <1>4, StampNames DEF Stamped, Ranged
<1>6. /\ age'.range = (IF message THEN 0 ELSE age.range)
      /\ age'.height = (IF message /\ params.forward /\ params.output = "MAVLINK"
                        THEN 0 ELSE age.height)
  BY <1>4, StampNames DEF Stamped, Ranged
<1>7. OTypeOK'
  BY <1>1, <1>2, <1>4 DEF OutputInv, OTypeOK, Ages, Events
<1>8. SpellIsMeasured'
  BY <1>2, <1>5 DEF OutputInv, SpellIsMeasured
<1>9. StaysReady' /\ IsAttempted'
  BY <1>1, <1>2, <1>3, <1>5, AgeTypes DEF OutputInv, StaysReady, IsAttempted
<1>10. HeightsComeWith'
  BY <1>1, <1>2, <1>3, <1>5, <1>6, AgeTypes DEF OutputInv, HeightsComeWith
<1> QED BY <1>7, <1>8, <1>9, <1>10 DEF OutputInv

LEMMA HealthInv ==
  ASSUME OutputInv, Health
  PROVE  OutputInv'
<1>. USE LimitsAreNumbers
<1>1. /\ step = "health" /\ step' = "fallback"
      /\ params' = params /\ ahead' = ahead /\ ran' = ran /\ changes' = changes
  BY DEF Health
<1>2. age \in Ages
  BY DEF OutputInv, OTypeOK, Ages
<1>3. CASE SampleOlderThan(HealthyMin)
  <2>1. age' = Restart({"unhealthy"}) /\ ever' = ever
    BY <1>3 DEF Health
  <2>2. age' \in Ages /\ Stamped({"unhealthy"})
    BY <1>2, <2>1, RestartIs DEF Stamped
  <2>3. /\ age'.sample = age.sample /\ age'.unhealthy = 0 /\ age'.good = age.good
        /\ age'.heard = age.heard /\ age'.attempt = age.attempt /\ age'.sent = age.sent
        /\ age'.steady = age.steady /\ age'.ready = age.ready
        /\ age'.range = age.range /\ age'.height = age.height
    BY <2>2, StampNames DEF Stamped
  <2>4. ~(age.ready >= 1)
    BY <1>1, <1>2, <1>3, AgeTypes DEF OutputInv, StaysReady, SampleOlderThan
  <2>5. OTypeOK'
    BY <1>1, <2>1, <2>2 DEF OutputInv, OTypeOK, Ages
  <2>6. SpellIsMeasured'
    BY <1>1, <1>2, <2>3, AgeTypes DEF OutputInv, SpellIsMeasured
  <2>7. StaysReady' /\ IsAttempted'
    BY <1>2, <2>1, <2>3, <2>4, AgeTypes DEF OutputInv, StaysReady, IsAttempted
  <2>8. HeightsComeWith'
    BY <1>1, <1>2, <2>1, <2>3, AgeTypes DEF OutputInv, HeightsComeWith
  <2> QED BY <2>5, <2>6, <2>7, <2>8 DEF OutputInv
<1>4. CASE ~SampleOlderThan(HealthyMin) /\ ~OriginDue
  <2>1. age' = age /\ ever' = ever
    BY <1>4 DEF Health
  <2>2. OTypeOK' /\ HeightsComeWith'
    BY <1>1, <2>1 DEF OutputInv, OTypeOK, HeightsComeWith
  <2>3. SpellIsMeasured'
    BY <1>1, <1>2, <1>4, <2>1, AgeTypes DEF OutputInv, SpellIsMeasured, SampleOlderThan
  <2>4. StaysReady'
    BY <1>1, <2>1 DEF OutputInv, StaysReady
  <2>5. ASSUME age.ready > OriginAfter PROVE age.attempt <= Resend
    <3>1. age.unhealthy > OriginAfter /\ age.heard < HbTimeout
      BY <1>2, <2>5, AgeTypes DEF OutputInv, StaysReady, Lower
    <3>2. \/ age.attempt < Retry
          \/ "sent" \in ever /\ age.sent < Resend
      BY <1>2, <1>4, <3>1, AgeTypes DEF OriginDue
    <3> QED BY <1>2, <3>2, AgeTypes DEF OutputInv, IsAttempted
  <2>6. IsAttempted'
    BY <2>1, <2>5 DEF OutputInv, IsAttempted
  <2> QED BY <2>2, <2>3, <2>4, <2>6 DEF OutputInv
<1>5. CASE ~SampleOlderThan(HealthyMin) /\ OriginDue
  <2>1. PICK sent \in BOOLEAN :
          /\ age' = Restart({"attempt"} \cup IF sent THEN {"sent"} ELSE {})
          /\ ever' = IF sent THEN ever \cup {"sent"} ELSE ever
    BY <1>5 DEF Health
  <2>2. age' \in Ages /\ Stamped({"attempt"} \cup IF sent THEN {"sent"} ELSE {})
    BY <1>2, <2>1, RestartIs DEF Stamped
  <2>3. /\ age'.sample = age.sample /\ age'.unhealthy = age.unhealthy /\ age'.good = age.good
        /\ age'.heard = age.heard /\ age'.attempt = 0 /\ age'.sent \in Nat
        /\ age'.steady = age.steady /\ age'.ready = age.ready
        /\ age'.range = age.range /\ age'.height = age.height
    BY <2>2, AgeTypes, StampNames DEF Stamped
  <2>4. OTypeOK'
    BY <1>1, <2>1, <2>2 DEF OutputInv, OTypeOK, Ages, Events
  <2>5. SpellIsMeasured'
    BY <1>1, <1>2, <1>5, <2>3, AgeTypes DEF OutputInv, SpellIsMeasured, SampleOlderThan
  <2>6. StaysReady'
    BY <1>1, <1>2, <2>1, <2>3, AgeTypes DEF OutputInv, StaysReady
  <2>8. IsAttempted'
    BY <2>3, AgeTypes DEF IsAttempted
  <2>7. HeightsComeWith'
    BY <1>1, <1>2, <2>1, <2>3, AgeTypes DEF OutputInv, HeightsComeWith
  <2> QED BY <2>4, <2>5, <2>6, <2>7, <2>8 DEF OutputInv
<1> QED BY <1>3, <1>4, <1>5

LEMMA FallbackInv ==
  ASSUME OutputInv, Fallback
  PROVE  OutputInv'
<1>. USE LimitsAreNumbers
<1>1. PICK heartbeat \in BOOLEAN :
        /\ age' = Restart((IF heartbeat THEN {"heard"} ELSE {}) \cup
                     IF ~params.forward /\ UwbSilent /\ IsRangefinderHealthy
                     THEN {"height"} ELSE {})
        /\ ever' = IF heartbeat THEN ever \cup {"heard"} ELSE ever
  BY DEF Fallback
<1>2. /\ step = "fallback" /\ step' = "idle" /\ ran' = TRUE
      /\ params' = params /\ ahead' = ahead /\ changes' = changes
  BY DEF Fallback
<1>3. age \in Ages
  BY DEF OutputInv, OTypeOK, Ages
<1>4. /\ age' \in Ages
      /\ Stamped((IF heartbeat THEN {"heard"} ELSE {}) \cup
                     IF ~params.forward /\ UwbSilent /\ IsRangefinderHealthy
                     THEN {"height"} ELSE {})
  BY <1>1, <1>3, RestartIs DEF Stamped
<1>5. /\ age'.sample = age.sample /\ age'.unhealthy = age.unhealthy /\ age'.good = age.good
      /\ age'.attempt = age.attempt /\ age'.sent = age.sent
      /\ age'.steady = age.steady /\ age'.ready = age.ready
      /\ age'.range = age.range
  BY <1>4, StampNames DEF Stamped
<1>6. age'.heard = IF heartbeat THEN 0 ELSE age.heard
  BY <1>4, StampNames DEF Stamped
<1>7. age'.height = IF ~params.forward /\ UwbSilent /\ IsRangefinderHealthy
                    THEN 0 ELSE age.height
  BY <1>4, StampNames DEF Stamped
<1>8. OTypeOK'
  BY <1>1, <1>2, <1>4 DEF OutputInv, OTypeOK, Ages, Events
<1>9. SpellIsMeasured'
  BY <1>2, <1>5 DEF OutputInv, SpellIsMeasured
<1>10. StaysReady' /\ IsAttempted'
  BY <1>1, <1>2, <1>3, <1>5, <1>6, AgeTypes DEF OutputInv, StaysReady, IsAttempted
<1>11. HeightsComeWith'
  <2>1. SUFFICES ASSUME age.steady >= 1 PROVE HeightsComeWith'
    BY <1>5 DEF HeightsComeWith
  <2>2. IsRangefinderHealthy
    BY <1>3, <2>1, AgeTypes
       DEF OutputInv, HeightsComeWith, IsRangefinderHealthy
  <2>3. ASSUME age.steady > Dropout, age.range = 0 PROVE age'.height <= Dropout
    <3>1. CASE params.forward
      BY <1>7, <2>1, <2>3, <3>1 DEF OutputInv, HeightsComeWith
    <3>2. CASE ~params.forward /\ UwbSilent
      BY <1>7, <2>2, <3>2
    <3>3. CASE ~UwbSilent
      <4>1. age.sample <= Dropout
        BY <1>3, <3>3, AgeTypes DEF UwbSilent, SampleOlderThan
      <4>2. age.height <= age.sample
        BY <1>3, <2>1, <2>3, <4>1, AgeTypes DEF OutputInv, HeightsComeWith
      <4> QED BY <1>3, <1>7, <3>3, <4>1, <4>2, AgeTypes
    <3> QED BY <3>1, <3>2, <3>3
  <2>4. age'.height <= age.height
    BY <1>3, <1>7, AgeTypes
  <2>5. age'.height \in Nat
    BY <1>4, AgeTypes
  <2> QED BY <1>1, <1>2, <1>3, <1>5, <2>1, <2>3, <2>4, <2>5, AgeTypes
         DEF OutputInv, HeightsComeWith
<1> QED BY <1>8, <1>9, <1>10, <1>11 DEF OutputInv

LEMMA OutputSetParamInv ==
  ASSUME OutputInv, SetOutputParam
  PROVE  OutputInv'
<1>. USE LimitsAreNumbers
<1>1. /\ params' \in OutputParams /\ changes < MaxChanges /\ changes' = changes + 1
      /\ age' = Restart({"ready", "steady"})
      /\ step' = step /\ ever' = ever /\ ahead' = ahead /\ ran' = ran
  BY DEF SetOutputParam
<1>2. age \in Ages
  BY DEF OutputInv, OTypeOK, Ages
<1>3. age' \in Ages /\ Stamped({"ready", "steady"})
  BY <1>1, <1>2, RestartIs DEF Stamped
<1>4. /\ age'.ready = 0 /\ age'.steady = 0
      /\ age'.attempt = age.attempt /\ age'.sent = age.sent
  BY <1>3, StampNames DEF Stamped
<1>5. OTypeOK'
  BY <1>1, <1>3 DEF OutputInv, OTypeOK, Ages
<1>6. changes' # 0
  BY <1>1 DEF OutputInv, OTypeOK
<1> QED
  BY <1>1, <1>4, <1>5, <1>6
     DEF OutputInv, SpellIsMeasured, StaysReady, IsAttempted, HeightsComeWith

LEMMA TickInv ==
  ASSUME OutputInv, Tick
  PROVE  OutputInv'
<1>. USE LimitsAreNumbers
<1>1. /\ step = "idle" /\ ran /\ ran' = FALSE
      /\ params' = params /\ step' = step /\ ever' = ever /\ ahead' = ahead
      /\ changes' = changes
  BY DEF Tick
<1>2. age \in Ages
  BY DEF OutputInv, OTypeOK, Ages
<1>3. age' \in Ages
  BY <1>2, TickIs
<1>4. \A s \in Stamps : age'[s] =
           IF Holds(s) THEN Lower(age[s] + 1, Cap[s]) ELSE 0
  BY <1>2, TickIs
<1>5. /\ age'.sample = Lower(age.sample + 1, HealthyMin + Dropout + 1)
      /\ age'.heard = Lower(age.heard + 1, HbTimeout)
      /\ age'.unhealthy = Lower(age.unhealthy + 1, OriginAfter + 1)
      /\ age'.attempt = Lower(age.attempt + 1, Retry + Resend + 2)
      /\ age'.sent = Lower(age.sent + 1, Resend)
      /\ age'.range = Lower(age.range + 1, RfStale + 1)
      /\ age'.height = Lower(age.height + 1, Dropout + 2)
  BY <1>4, StampNames DEF Holds, Cap
<1>6. age'.good =
        IF age.sample <= HealthyMin THEN Lower(age.good + 1, OriginAfter) ELSE 0
  BY <1>4, StampNames DEF Holds, Cap
<1>7. age'.ready =
        IF Holds("ready") THEN Lower(age.ready + 1, OriginAfter + 2) ELSE 0
  BY <1>4, StampNames DEF Cap
<1>8. age'.steady =
        IF Holds("steady") THEN Lower(age.steady + 1, Dropout + 2) ELSE 0
  BY <1>4, StampNames DEF Cap
<1>9. OTypeOK'
  BY <1>1, <1>3 DEF OutputInv, OTypeOK, Ages
<1>10. SpellIsMeasured'
  BY <1>1, <1>2, <1>5, <1>6, AgeTypes DEF OutputInv, SpellIsMeasured, Lower
<1>11. StaysReady'
  <2>1. CASE Holds("ready")
    <3>1. /\ params.output = "MAVLINK" /\ "sample" \in ever
          /\ age.sample + 1 <= HealthyMin /\ age.heard + 1 < HbTimeout
      BY <2>1 DEF Holds
    <3>2. age.ready >= 1 => age.unhealthy >= Lower(age.ready, OriginAfter + 1)
      BY DEF OutputInv, StaysReady
    <3>3. age'.unhealthy >= Lower(age'.ready, OriginAfter + 1)
      BY <1>2, <1>5, <1>7, <2>1, <3>2, AgeTypes DEF Lower
    <3>4. age'.sample <= HealthyMin /\ age'.heard < HbTimeout
      BY <1>2, <1>5, <3>1, AgeTypes DEF Lower
    <3> QED BY <1>1, <3>1, <3>3, <3>4 DEF StaysReady
  <2>2. CASE ~Holds("ready")
    BY <1>7, <2>2 DEF StaysReady
  <2> QED BY <2>1, <2>2
<1>12. IsAttempted'
  <2>1. "sent" \in ever => age'.attempt <= age'.sent \/ age'.sent >= Resend
    BY <1>2, <1>5, AgeTypes DEF OutputInv, IsAttempted, Lower
  <2>2. age'.ready > OriginAfter + 1 => age'.attempt <= Resend + 1
    BY <1>1, <1>2, <1>5, <1>7, AgeTypes DEF OutputInv, IsAttempted, Lower
  <2> QED BY <1>1, <2>1, <2>2 DEF IsAttempted
<1>13. HeightsComeWith'
  <2>1. CASE Holds("steady")
    <3>1. params.output = "MAVLINK" /\ "range" \in ever /\ age.range = 0
      BY <2>1 DEF Holds
    <3>2. age'.range = 1
      BY <1>5, <3>1 DEF Lower
    <3>3. ASSUME age'.sample < age'.steady, age'.sample <= Dropout
          PROVE  age'.height <= age'.sample
      <4>1. age.sample < age.steady /\ age.sample <= Dropout /\ age'.sample = age.sample + 1
        BY <1>2, <1>5, <1>8, <2>1, <3>3, AgeTypes DEF Lower
      <4>2. age.height <= age.sample
        BY <1>2, <4>1, AgeTypes DEF OutputInv, HeightsComeWith
      <4> QED BY <1>2, <1>5, <4>1, <4>2, AgeTypes DEF Lower
    <3>4. ASSUME age'.steady > Dropout + 1 PROVE age'.height <= Dropout + 1
      <4>1. age.steady > Dropout /\ age.steady >= 1
        BY <1>2, <1>8, <2>1, <3>4, AgeTypes DEF Lower
      <4>2. age.height <= Dropout
        BY <1>1, <3>1, <4>1 DEF OutputInv, HeightsComeWith
      <4> QED BY <1>2, <1>5, <4>2, AgeTypes DEF Lower
    <3> QED BY <1>1, <3>1, <3>2, <3>3, <3>4 DEF HeightsComeWith
  <2>2. CASE ~Holds("steady")
    BY <1>8, <2>2 DEF HeightsComeWith
  <2> QED BY <2>1, <2>2
<1> QED BY <1>9, <1>10, <1>11, <1>12, <1>13 DEF OutputInv

LEMMA OutputInitInv == ASSUME OInit PROVE OutputInv
<1>. USE LimitsAreNumbers
<1>1. PICK uptime \in 0 .. Retry + Resend :
        age = [s \in Stamps |->
                 IF s \in {"unhealthy", "good", "ready", "steady", "height"}
                 THEN 0 ELSE Lower(uptime, Cap[s])]
  BY DEF OInit
<1>2. \A s \in Stamps : age[s] \in Nat /\ age[s] <= Cap[s]
  BY <1>1, CapsAreNumbers DEF Lower
<1>3. age \in [Stamps -> Nat]
  BY <1>1, <1>2
<1>4. /\ age.unhealthy = 0 /\ age.good = 0 /\ age.ready = 0 /\ age.steady = 0
  BY <1>1, StampNames
<1>5. OTypeOK
  <2>1. /\ params \in OutputParams /\ step = "idle" /\ ever = {} /\ ahead = FALSE
        /\ ran = FALSE /\ changes = 0
    BY DEF OInit
  <2>2. 0 \in 0 .. MaxChanges
    BY LimitsAreNumbers
  <2> QED BY <1>2, <1>3, <2>1, <2>2 DEF OTypeOK, Events
<1> QED
  BY <1>4, <1>5
     DEF OInit, OutputInv, SpellIsMeasured, StaysReady, IsAttempted, HeightsComeWith

LEMMA OutputNextInv ==
  ASSUME OutputInv, [ONext]_ovars PROVE OutputInv'
<1>1. CASE UNCHANGED ovars
  BY <1>1
     DEF ovars, OutputInv, OTypeOK, SpellIsMeasured, StaysReady, IsAttempted,
         HeightsComeWith
<1>2. CASE ONext
  BY <1>2, SendSampleInv, CaptureInv, HealthInv, FallbackInv, OutputSetParamInv, TickInv
     DEF ONext
<1> QED BY <1>1, <1>2

LEMMA Invariance == OSpec => []OutputInv
<1>1. OInit => OutputInv
  BY OutputInitInv
<1>2. OutputInv /\ [ONext]_ovars => OutputInv'
  BY OutputNextInv
<1> QED BY <1>1, <1>2, PTL DEF OSpec

\* The stamps of App::Update and SendSample: no age exceeds the one up to which
\* comparisons tell ages apart.
THEOREM OutputTypeCorrect == OSpec => []OTypeOK
<1>1. OutputInv => OTypeOK
  BY DEF OutputInv
<1> QED BY <1>1, Invariance, PTL

\* A device that has been healthy, with an autopilot to send to, for longer than
\* kSendOriginPositionAfterMs has tried to send the origin no longer ago than
\* kOriginResendIntervalMs (App::Update), whatever sends failed and however
\* SendSample interrupted.
THEOREM OriginComesInTime == OSpec => []OriginIsTimely
<1>1. OutputInv => OriginIsTimely
  BY DEF OutputInv, IsAttempted, OriginIsTimely
<1> QED BY <1>1, Invariance, PTL

\* While the rangefinder is heard the autopilot gets a height at least once every
\* kUwbDropoutForwardMs: with the position (SendSample), forwarded by the callback
\* of App::Init or re-emitted by App::Update while UWB is silent.
THEOREM HeightsKeepComing == OSpec => []HeightKeepsComing
<1>1. OutputInv => HeightKeepsComing
  <2>1. SUFFICES ASSUME OutputInv, age.steady > Dropout + 1 PROVE age.height <= Dropout + 1
    BY DEF HeightKeepsComing
  <2>2. age.steady \in Nat
    BY StampNames, <2>1 DEF OutputInv, OTypeOK
  <2> QED BY <2>1, <2>2, LimitsAreNumbers DEF OutputInv, HeightsComeWith
<1> QED BY <1>1, Invariance, PTL

\* Only the health check stamps the origin as sent.
LEMMA SentOnlyWhenDue ==
  ASSUME OutputInv, [ONext]_ovars, age.sent # 0, age'.sent = 0
  PROVE  step = "health" /\ ~SampleOlderThan(HealthyMin) /\ OriginDue
<1>1. age \in Ages
  BY DEF OutputInv, OTypeOK, Ages
<1>2. ASSUME NEW S, age' = Restart(S) PROVE "sent" \in S
  BY <1>1, <1>2, RestartIs, StampNames
<1>3. /\ ~SendSample /\ ~Capture /\ ~Fallback
      /\ ~SetOutputParam /\ ~UNCHANGED ovars
  BY <1>2 DEF SendSample, Capture, Ranged, Fallback, SetOutputParam, ovars
<1>4. ~Tick
  <2>1. SUFFICES ASSUME Tick PROVE FALSE
    OBVIOUS
  <2>2. age'.sent = Lower(age.sent + 1, Resend)
    BY <1>1, <2>1, TickIs, StampNames DEF Holds, Cap
  <2>3. age.sent \in Nat /\ age.sent <= Resend
    BY <1>1, StampNames DEF Ages, Cap
  <2> QED BY <2>2, <2>3, LimitsAreNumbers DEF Lower
<1>5. Health
  BY <1>3, <1>4 DEF ONext
<1> QED BY <1>2, <1>5 DEF Health

\* With the parameters of the boot App::Update sends the origin only after a spell of
\* kSendOriginPositionAfterMs without a gap between positions that outlasts the
\* health limit.
THEOREM OriginNeedsHealthySpell == OSpec => OriginAfterHealthySpell
<1>1. ASSUME OutputInv, [ONext]_ovars, age.sent # 0, age'.sent = 0, changes = 0
      PROVE  age.good >= OriginAfter
  <2>1. step = "health" /\ OriginDue
    BY <1>1, SentOnlyWhenDue
  <2>2. age.unhealthy <= age.good + 1 /\ age.unhealthy > OriginAfter
    BY <1>1, <2>1 DEF OutputInv, SpellIsMeasured, OriginDue
  <2>3. age.good \in Nat /\ age.unhealthy \in Nat
    BY <1>1, StampNames DEF OutputInv, OTypeOK
  <2> QED BY <2>2, <2>3, LimitsAreNumbers
<1>2. OutputInv /\ [ONext]_ovars
        => [age.sent # 0 /\ age'.sent = 0 /\ changes = 0
              => age.good >= OriginAfter]_ovars
  BY <1>1
<1> QED BY <1>2, Invariance, PTL DEF OSpec, OriginAfterHealthySpell
=============================================================================
