-------------------------- MODULE AnchorRadioProofs --------------------------
(***************************************************************************)
(* Proofs about AnchorRadio, for any number of commands, uploads, faults   *)
(* and boots, and for the steps of the console, the upload and RadioTask in*)
(* any order: a suspended radio is idle, and one that is off although the  *)
(* file has it on was suspended by an upload that remembers it, or switched*)
(* off by a write that failed to save it.                                  *)
(***************************************************************************)
EXTENDS AnchorRadio, SequenceTheorems, TLAPS

\* The steps a task can have to make: those that carry a value, and the others.
ArgOps == {"runtime", "setEnabled"}
AccessOps == {"ifAttached", "detach", "ifRunning", "ifDetached", "attach",
              "requestStart", "notify"}
RadioOps == {"idle", "suspend", "unsuspend", "ifStart", "service"}
Steps == {Do(o) : o \in AccessOps \cup RadioOps} \cup {With(o, v) : o \in ArgOps, v \in BOOLEAN}

\* What Access can put before the rest of a task.
Continuations == {Do(o) : o \in AccessOps} \cup {With("setEnabled", v) : v \in BOOLEAN}

IsIdle == chip = "idle" /\ timer = "zero"

(* RadioTask's steps: it suspends at its end, right after it has idled the *)
(* radio, and while suspended it can only end the suspension; it enables   *)
(* and disables nothing.                                                   *)
RadioSteps(s, off, idle) ==
    /\ off => idle
    /\ off /\ s # <<>> => s[1].op = "unsuspend"
    /\ \A k \in 1 .. Len(s) :
          /\ s[k].op = "suspend" =>
                k = Len(s) /\ ((k = 1 /\ idle) \/ (k = 2 /\ s[1].op = "idle"))
          /\ s[k].op = "unsuspend" => k = 1
          /\ s[k].op # "runtime"

\* The file has the radio on, and memory does not hold what failed to be saved.
OnFile == file = "on" /\ ~unsaved

\* The console switches nothing off that the file has on.
ConsoleSteps(s, inFile) ==
    \A k \in 1 .. Len(s) : s[k].op = "runtime" => s[k].arg \/ ~inFile

TypeInv == TypeOK /\ todo \in [Tasks -> Seq(Steps)]
Inv == /\ TypeInv
       /\ RadioSteps(todo["radio"], suspended, IsIdle)
       /\ ConsoleSteps(todo["console"], OnFile)
       /\ OffForAReason

-----------------------------------------------------------------------------
(* Sequences of steps.                                                     *)

LEMMA StepFacts ==
  ASSUME NEW s \in Steps
  PROVE  /\ s.op \in AccessOps \cup RadioOps \cup ArgOps
         /\ s.op \in ArgOps => s.arg \in BOOLEAN
BY DEF Steps, Do, With, ArgOps, AccessOps, RadioOps

LEMMA ContinuationFacts ==
  /\ Continuations \subseteq Steps
  /\ \A s \in Continuations : s.op \in AccessOps \cup {"setEnabled"}
BY DEF Continuations, Steps, Do, With, ArgOps

\* The rest of a task, after what its head has put before it.
LEMMA Continued ==
  ASSUME NEW S, NEW old \in Seq(S), old # <<>>, NEW next \in Seq(S)
  PROVE  LET new == next \o Tail(old)
         IN  /\ new \in Seq(S)
             /\ Len(new) = Len(next) + Len(old) - 1
             /\ \A k \in 1 .. Len(new) :
                  \/ k <= Len(next) /\ new[k] = next[k]
                  \/ k > Len(next) /\ new[k] = old[k - Len(next) + 1]
<1>1. /\ Tail(old) \in Seq(S) /\ Len(Tail(old)) = Len(old) - 1
      /\ \A k \in 1 .. Len(Tail(old)) : Tail(old)[k] = old[k + 1]
  BY HeadTailProperties
<1> DEFINE tail == Tail(old)
<1> HIDE DEF tail
<1>2. /\ tail \in Seq(S) /\ Len(tail) = Len(old) - 1
      /\ \A k \in 1 .. Len(tail) : tail[k] = old[k + 1]
  BY <1>1 DEF tail
<1>3. /\ next \o tail \in Seq(S) /\ Len(next \o tail) = Len(next) + Len(tail)
      /\ \A k \in 1 .. Len(next) + Len(tail) :
           (next \o tail)[k] = IF k <= Len(next) THEN next[k] ELSE tail[k - Len(next)]
  BY <1>2, ConcatProperties
<1>4. Len(next) \in Nat /\ Len(tail) \in Nat /\ Len(old) \in Nat
  BY <1>2, LenProperties
<1> DEFINE new == next \o tail
<1> HIDE DEF new
<1>5. ASSUME NEW k \in 1 .. Len(new)
      PROVE  \/ k <= Len(next) /\ new[k] = next[k]
             \/ k > Len(next) /\ new[k] = old[k - Len(next) + 1]
  <2>1. CASE k <= Len(next)
    BY <1>3, <1>4, <1>5, <2>1 DEF new
  <2>2. CASE k > Len(next)
    <3>1. new[k] = tail[k - Len(next)]
      BY <1>3, <1>4, <1>5, <2>2 DEF new
    <3>2. k - Len(next) \in 1 .. Len(tail)
      BY <1>3, <1>4, <1>5, <2>2 DEF new
    <3>3. tail[k - Len(next)] = old[k - Len(next) + 1]
      BY <1>2, <3>2
    <3> QED BY <2>2, <3>1, <3>3
  <2> QED BY <1>4, <2>1, <2>2
<1> QED BY <1>2, <1>3, <1>4, <1>5 DEF new, tail

LEMMA Nonempty ==
  ASSUME NEW s \in Seq(Steps), s # <<>>
  PROVE  /\ Len(s) \in Nat \ {0} /\ 1 \in 1 .. Len(s) /\ Len(s) \in 1 .. Len(s)
         /\ Head(s) = s[1] /\ \A k \in 1 .. Len(s) : s[k] \in Steps
BY LenProperties, EmptySeq

\* RadioTask itself attaches the handler or requests the start: it is not suspended.
LEMMA RadioContinued ==
  ASSUME NEW old \in Seq(Steps), old # <<>>, NEW next \in Seq(Continuations),
         NEW off \in BOOLEAN, NEW idle \in BOOLEAN, RadioSteps(old, off, idle),
         old[1].op \notin {"idle", "suspend", "unsuspend"}, NEW off2 \in {off, FALSE},
         NEW idle2 \in BOOLEAN
  PROVE  RadioSteps(next \o Tail(old), off2, idle2)
<1> DEFINE new == next \o Tail(old)
<1>1. next \in Seq(Steps)
  BY ContinuationFacts
<1>2. /\ new \in Seq(Steps) /\ Len(new) = Len(next) + Len(old) - 1
      /\ \A k \in 1 .. Len(new) :
           \/ k <= Len(next) /\ new[k] = next[k]
           \/ k > Len(next) /\ new[k] = old[k - Len(next) + 1]
  BY <1>1, Continued
<1> HIDE DEF new
<1>3. off = FALSE /\ off2 = FALSE
  BY DEF RadioSteps
<1>4. Len(next) \in Nat /\ Len(old) \in Nat \ {0} /\ Len(new) \in Nat
  BY <1>1, <1>2, Nonempty, LenProperties
<1>5. ASSUME NEW k \in 1 .. Len(new)
      PROVE  new[k].op \notin {"suspend", "unsuspend", "runtime"}
  <2>1. CASE k <= Len(next) /\ new[k] = next[k]
    <3>1. next[k] \in Continuations
      BY <1>4, <2>1
    <3>2. next[k].op \in AccessOps \cup {"setEnabled"}
      BY <3>1, ContinuationFacts
    <3> QED BY <2>1, <3>2 DEF AccessOps
  <2>2. CASE k > Len(next) /\ new[k] = old[k - Len(next) + 1]
    <3> DEFINE j == k - Len(next) + 1
    <3>1. j \in 1 .. Len(old) /\ j # 1
      BY <1>2, <1>4, <2>2
    <3> HIDE DEF j
    <3>2. old[j].op # "unsuspend" /\ old[j].op # "runtime"
      BY <3>1 DEF RadioSteps
    <3>3. old[j].op # "suspend"
      BY <3>1, <1>4 DEF RadioSteps
    <3> QED BY <2>2, <3>2, <3>3 DEF j
  <2> QED BY <1>2, <2>1, <2>2
<1> QED BY <1>3, <1>5 DEF RadioSteps, new

LEMMA ConsoleContinued ==
  ASSUME NEW old \in Seq(Steps), old # <<>>, NEW next \in Seq(Continuations),
         NEW inFile, ConsoleSteps(old, inFile)
  PROVE  ConsoleSteps(next \o Tail(old), inFile)
<1> DEFINE new == next \o Tail(old)
<1>1. next \in Seq(Steps)
  BY ContinuationFacts
<1>2. /\ new \in Seq(Steps) /\ Len(new) = Len(next) + Len(old) - 1
      /\ \A k \in 1 .. Len(new) :
           \/ k <= Len(next) /\ new[k] = next[k]
           \/ k > Len(next) /\ new[k] = old[k - Len(next) + 1]
  BY <1>1, Continued
<1> HIDE DEF new
<1>3. Len(next) \in Nat /\ Len(old) \in Nat \ {0} /\ Len(new) \in Nat
  BY <1>1, <1>2, Nonempty, LenProperties
<1>4. ASSUME NEW k \in 1 .. Len(new), new[k].op = "runtime"
      PROVE  new[k].arg \/ ~inFile
  <2>1. CASE k <= Len(next) /\ new[k] = next[k]
    <3>1. next[k] \in Continuations
      BY <1>3, <2>1
    <3>2. next[k].op \in AccessOps \cup {"setEnabled"}
      BY <3>1, ContinuationFacts
    <3> QED BY <1>4, <2>1, <3>2 DEF AccessOps
  <2>2. CASE k > Len(next) /\ new[k] = old[k - Len(next) + 1]
    <3> DEFINE j == k - Len(next) + 1
    <3>1. j \in 1 .. Len(old)
      <4>1. Len(new) = Len(next) + Len(old) - 1
        BY <1>2
      <4> QED BY <1>3, <2>2, <4>1
    <3> HIDE DEF j
    <3>2. new[k] = old[j]
      BY <2>2 DEF j
    <3> QED BY <1>4, <3>1, <3>2 DEF ConsoleSteps
  <2> QED BY <1>2, <2>1, <2>2
<1> QED BY <1>4 DEF ConsoleSteps, new

\* While the radio is at work no suspension is near, and it may go on working.
LEMMA RadioBusy ==
  ASSUME NEW s, NEW off \in BOOLEAN, RadioSteps(s, off, FALSE), NEW idle \in BOOLEAN
  PROVE  RadioSteps(s, off, idle)
BY DEF RadioSteps

LEMMA RadioOn ==
  ASSUME NEW s, NEW off \in BOOLEAN, NEW idle \in BOOLEAN, RadioSteps(s, off, idle),
         NEW off2 \in {off, FALSE}
  PROVE  RadioSteps(s, off2, idle)
<1>1. RadioSteps(s, FALSE, idle)
  BY DEF RadioSteps
<1>2. CASE off2 = off
  BY <1>2
<1>3. CASE off2 = FALSE
  BY <1>1, <1>3
<1> QED BY <1>2, <1>3

LEMMA NoSteps ==
  ASSUME NEW inFile, NEW off, NEW idle, off => idle
  PROVE  RadioSteps(<<>>, off, idle) /\ ConsoleSteps(<<>>, inFile)
BY DEF RadioSteps, ConsoleSteps

\* The sequences that RadioTask begins.
LEMMA Begun ==
  /\ RadioSteps(<<Do("idle"), Do("suspend")>>, FALSE, IsIdle)
  /\ RadioSteps(<<Do("ifStart"), Do("service")>>, FALSE, IsIdle)
  /\ RadioSteps(Resume, TRUE, TRUE)
<1>1. RadioSteps(<<Do("idle"), Do("suspend")>>, FALSE, IsIdle)
  BY DEF RadioSteps, Do
<1>2. RadioSteps(<<Do("ifStart"), Do("service")>>, FALSE, IsIdle)
  BY DEF RadioSteps, Do
<1>3. RadioSteps(Resume, TRUE, TRUE)
  BY DEF RadioSteps, Resume, Do
<1> QED BY <1>1, <1>2, <1>3

-----------------------------------------------------------------------------
(* The steps.                                                              *)

\* What a step of SetRuntimeEnabled or SetEnabled does, in any task.
LEMMA AccessStep ==
  ASSUME TypeInv, NEW t \in Tasks, Access(t)
  PROVE  /\ todo[t] # <<>> /\ todo[t] \in Seq(Steps)
         /\ todo[t][1].op \in AccessOps \cup {"runtime", "setEnabled"}
         /\ \E next \in Seq(Continuations) :
               todo' = [todo EXCEPT ![t] = next \o Tail(todo[t])]
         /\ suspended' \in {suspended, FALSE}
         /\ param' = IF todo[t][1].op = "runtime" THEN todo[t][1].arg ELSE param
         /\ otaSuspended' = IF todo[t][1].op = "runtime" /\ t = "ota" THEN ~todo[t][1].arg
                                                                 ELSE otaSuspended
         /\ UNCHANGED <<file, unsaved, timer, chip>>
         /\ TypeOK'
<1>1. todo[t] \in Seq(Steps)
  BY DEF TypeInv
<1>2. todo[t] # <<>>
  BY DEF Access, SetRuntimeEnabled, SetEnabled, IfRunning, IfDetached, IfAttached, Attach,
         Detach, RequestStart, Notify, At
<1>3. Head(todo[t]) = todo[t][1] /\ todo[t][1] \in Steps
  BY <1>1, <1>2, Nonempty
<1> DEFINE h == Head(todo[t])
           C(next) == todo' = [todo EXCEPT ![t] = next \o Tail(todo[t])]
<1>4. /\ <<>> \in Seq(Continuations)
      /\ \A a \in Continuations : <<a>> \in Seq(Continuations)
      /\ \A a, b \in Continuations : <<a, b>> \in Seq(Continuations)
  OBVIOUS
<1>5. /\ \A o \in AccessOps : Do(o) \in Continuations
      /\ \A v \in BOOLEAN : With("setEnabled", v) \in Continuations
  BY DEF Continuations
<1>6. h.op \in ArgOps => h.arg \in BOOLEAN
  BY <1>3, StepFacts
<1>7. \A n \in 0 .. 2 : More(n) \in 0 .. 2
  BY DEF More
<1>8. CASE SetRuntimeEnabled(t)
  <2>1. h.op = "runtime" /\ h.arg \in BOOLEAN
    BY <1>6, <1>8 DEF SetRuntimeEnabled, At, ArgOps
  <2>2. \E next \in Seq(Continuations) : C(next)
    <3>1. C(<<With("setEnabled", h.arg)>>) \/ C(<<>>)
      BY <1>8 DEF SetRuntimeEnabled, Continue, Arg
    <3>2. <<With("setEnabled", h.arg)>> \in Seq(Continuations)
      BY <1>4, <1>5, <2>1
    <3> QED BY <1>4, <3>1, <3>2
  <2>4. otaSuspended' = (IF t = "ota" THEN ~h.arg ELSE otaSuspended) /\ otaSuspended' \in BOOLEAN
    BY <1>8, <2>1 DEF SetRuntimeEnabled, Noted, Arg, TypeInv, TypeOK
  <2>3. TypeOK'
    <3>1. CASE backend
      BY <1>8, <2>1, <2>4, <3>1 DEF SetRuntimeEnabled, TypeInv, TypeOK, Arg, flags, radio
    <3>2. CASE ~backend
      <4>1. PICK v \in BOOLEAN : v = h.arg
        BY <2>1
      <4>2. /\ param' = v /\ backend' = v /\ attached' = v /\ start' = v
            /\ enabled' = TRUE /\ suspended' = FALSE
            /\ UNCHANGED <<file, unsaved, timer, chip, got, upload, overlapped>>
        BY <1>8, <3>2, <4>1 DEF SetRuntimeEnabled, Arg, radio
      <4>3. notified' = 1 \/ notified' = 0
        BY <1>8, <3>2 DEF SetRuntimeEnabled
      <4>4. {unsaved, otaSuspended', overlapped} \subseteq BOOLEAN
        BY <2>4 DEF TypeInv, TypeOK
      <4>5. {param, backend, enabled, suspended, attached, start, otaSuspended,
             overlapped, unsaved}' \subseteq BOOLEAN
        BY <4>1, <4>2, <4>4
      <4>6. /\ timer' \in {"zero", "recent", "old"}
            /\ chip' \in {"idle", "active", "done", "hung"}
            /\ notified' \in 0 .. 2 /\ got' \in 0 .. 2
            /\ upload' \in {"none", "running", "reboot"}
            /\ file' \in {"on", "off", "gone"}
        BY <4>2, <4>3 DEF TypeInv, TypeOK
      <4> QED BY <4>5, <4>6 DEF TypeOK
    <3> QED BY <3>1, <3>2
  <2> QED BY <1>1, <1>2, <1>3, <1>8, <2>1, <2>2, <2>3, <2>4
          DEF SetRuntimeEnabled, Arg, flags, radio
<1>9. CASE SetEnabled(t)
  <2>1. h.op = "setEnabled" /\ h.arg \in BOOLEAN
    BY <1>6, <1>9 DEF SetEnabled, At, ArgOps
  <2>2. \E next \in Seq(Continuations) : C(next)
    <3>1. C(<<>>) \/ C(<<Do("ifRunning"), Do("notify")>>) \/ C(<<Do("ifAttached"), Do("notify")>>)
      BY <1>9 DEF SetEnabled, Continue, Enabling, Disabling
    <3>2. /\ <<Do("ifRunning"), Do("notify")>> \in Seq(Continuations)
          /\ <<Do("ifAttached"), Do("notify")>> \in Seq(Continuations)
      BY <1>4, <1>5 DEF AccessOps
    <3> QED BY <1>4, <3>1, <3>2
  <2>3. (\E u \in Callers \ {t} : Busy(u)) \in BOOLEAN
    OBVIOUS
  <2>4. TypeOK'
    BY <1>9, <2>1, <2>3 DEF SetEnabled, TypeInv, TypeOK, Arg, stored, radio, ota
  <2> QED BY <1>1, <1>2, <1>3, <1>9, <2>1, <2>2, <2>4
          DEF SetEnabled, stored, radio, ota
<1>10. CASE IfRunning(t)
  <2>1. h.op = "ifRunning"
    BY <1>10 DEF IfRunning, At
  <2>2. \E next \in Seq(Continuations) : C(next)
    <3>1. C(<<>>) \/ C(<<Do("ifDetached"), Do("requestStart")>>)
      BY <1>10 DEF IfRunning, Continue
    <3>2. <<Do("ifDetached"), Do("requestStart")>> \in Seq(Continuations)
      BY <1>4, <1>5 DEF AccessOps
    <3> QED BY <1>4, <3>1, <3>2
  <2>3. TypeOK'
    BY <1>10 DEF IfRunning, TypeInv, TypeOK, stored, flags, radio, ota
  <2> QED BY <1>1, <1>2, <1>3, <1>10, <2>1, <2>2, <2>3
          DEF IfRunning, stored, flags, radio, ota, AccessOps
<1>11. CASE IfDetached(t)
  <2>1. h.op = "ifDetached"
    BY <1>11 DEF IfDetached, At
  <2>2. \E next \in Seq(Continuations) : C(next)
    <3>1. C(<<>>) \/ C(<<Do("attach")>>)
      BY <1>11 DEF IfDetached, Continue
    <3>2. <<Do("attach")>> \in Seq(Continuations)
      BY <1>4, <1>5 DEF AccessOps
    <3> QED BY <1>4, <3>1, <3>2
  <2>3. TypeOK'
    BY <1>11 DEF IfDetached, TypeInv, TypeOK, stored, flags, radio, ota
  <2> QED BY <1>1, <1>2, <1>3, <1>11, <2>1, <2>2, <2>3
          DEF IfDetached, stored, flags, radio, ota, AccessOps
<1>12. CASE IfAttached(t)
  <2>1. h.op = "ifAttached"
    BY <1>12 DEF IfAttached, At
  <2>2. \E next \in Seq(Continuations) : C(next)
    <3>1. C(<<>>) \/ C(<<Do("detach")>>)
      BY <1>12 DEF IfAttached, Continue
    <3>2. <<Do("detach")>> \in Seq(Continuations)
      BY <1>4, <1>5 DEF AccessOps
    <3> QED BY <1>4, <3>1, <3>2
  <2>3. TypeOK'
    BY <1>12 DEF IfAttached, TypeInv, TypeOK, stored, flags, radio, ota
  <2> QED BY <1>1, <1>2, <1>3, <1>12, <2>1, <2>2, <2>3
          DEF IfAttached, stored, flags, radio, ota, AccessOps
<1>13. CASE Attach(t) \/ Detach(t) \/ RequestStart(t) \/ Notify(t)
  <2>1. h.op \in {"attach", "detach", "requestStart", "notify"}
    BY <1>13 DEF Attach, Detach, RequestStart, Notify, At
  <2>2. \E next \in Seq(Continuations) : C(next)
    <3>1. C(<<>>)
      BY <1>13 DEF Attach, Detach, RequestStart, Notify, Continue
    <3> QED BY <1>4, <3>1
  <2>3. TypeOK'
    BY <1>7, <1>13 DEF Attach, Detach, RequestStart, Notify, TypeInv, TypeOK,
                       stored, flags, radio, ota
  <2>4. UNCHANGED <<suspended, param, file, unsaved, timer, chip, otaSuspended>>
    BY <1>13 DEF Attach, Detach, RequestStart, Notify, stored, flags, radio, ota
  <2> QED BY <1>1, <1>2, <1>3, <2>1, <2>2, <2>3, <2>4 DEF AccessOps
<1> QED BY <1>8, <1>9, <1>10, <1>11, <1>12, <1>13 DEF Access

LEMMA AccessKeepsInv ==
  ASSUME Inv, NEW t \in Tasks, Access(t)
  PROVE  Inv'
<1> DEFINE old == todo[t]
<1>1. /\ old # <<>> /\ old \in Seq(Steps)
      /\ old[1].op \in AccessOps \cup {"runtime", "setEnabled"}
      /\ suspended' \in {suspended, FALSE}
      /\ param' = IF old[1].op = "runtime" THEN old[1].arg ELSE param
      /\ otaSuspended' = IF old[1].op = "runtime" /\ t = "ota" THEN ~old[1].arg
                                                              ELSE otaSuspended
      /\ UNCHANGED <<file, unsaved, timer, chip>>
      /\ TypeOK'
  BY AccessStep DEF Inv
<1>2. PICK next \in Seq(Continuations) : todo' = [todo EXCEPT ![t] = next \o Tail(old)]
  BY AccessStep DEF Inv
<1>3. todo \in [Tasks -> Seq(Steps)] /\ {"radio", "console", "ota"} \subseteq Tasks
  BY DEF Inv, TypeInv, Tasks, Callers
<1>4. todo'[t] = next \o Tail(old) /\ \A u \in Tasks \ {t} : todo'[u] = todo[u]
  BY <1>2, <1>3
<1>5. next \in Seq(Steps)
  BY ContinuationFacts
<1>6. next \o Tail(old) \in Seq(Steps)
  BY <1>1, <1>5, Continued
<1>7. TypeInv'
  BY <1>1, <1>2, <1>3, <1>6 DEF TypeInv
<1>8. /\ param \in BOOLEAN /\ OnFile \in BOOLEAN /\ suspended \in BOOLEAN
      /\ OnFile' = OnFile
      /\ param' \in BOOLEAN /\ IsIdle \in BOOLEAN /\ IsIdle' = IsIdle
  BY <1>1, <1>7 DEF Inv, TypeInv, TypeOK, IsIdle, OnFile
<1>9. Len(old) \in Nat \ {0} /\ 1 \in 1 .. Len(old)
  BY <1>1, Nonempty
<1>10. CASE t = "radio"
  <2>1. old[1].op # "runtime"
    BY <1>9, <1>10 DEF Inv, RadioSteps
  <2>2. param' = param /\ otaSuspended' = otaSuspended
    BY <1>1, <2>1
  <2>3. RadioSteps(todo'["radio"], suspended', IsIdle')
    <3>1. RadioSteps(old, suspended, IsIdle) /\ todo'["radio"] = next \o Tail(old)
      BY <1>4, <1>10 DEF Inv
    <3>2. RadioSteps(next \o Tail(old), suspended', IsIdle')
      <4>1. old[1].op \notin {"idle", "suspend", "unsuspend"}
        BY <1>1 DEF AccessOps
      <4>2. /\ old \in Seq(Steps) /\ old # <<>> /\ suspended' \in {suspended, FALSE}
            /\ suspended \in BOOLEAN /\ IsIdle \in BOOLEAN /\ IsIdle' \in BOOLEAN
        BY <1>1, <1>8
      <4> HIDE DEF old
      <4> QED BY <3>1, <4>1, <4>2, RadioContinued
    <3> QED BY <3>1, <3>2
  <2>4. todo'["console"] = todo["console"]
    BY <1>3, <1>4, <1>10
  <2> QED BY <1>1, <1>7, <1>8, <2>2, <2>3, <2>4 DEF Inv, OffForAReason
<1>11. CASE t = "console"
  <2>1. todo'["radio"] = todo["radio"] /\ otaSuspended' = otaSuspended
    BY <1>1, <1>3, <1>4, <1>11
  <2>2. ConsoleSteps(todo'["console"], OnFile')
    <3>1. ConsoleSteps(old, OnFile) /\ todo'["console"] = next \o Tail(old)
      BY <1>4, <1>11 DEF Inv
    <3>2. ConsoleSteps(next \o Tail(old), OnFile)
      <4>1. old \in Seq(Steps) /\ old # <<>>
        BY <1>1
      <4> HIDE DEF old
      <4> QED BY <3>1, <4>1, ConsoleContinued
    <3> QED BY <1>8, <3>1, <3>2
  <2>3. RadioSteps(todo'["radio"], suspended', IsIdle')
    BY <1>1, <1>8, <2>1, RadioOn DEF Inv
  <2>4. CASE old[1].op = "runtime"
    <3>1. param' \/ ~OnFile
      BY <1>1, <1>9, <1>11, <2>4 DEF Inv, ConsoleSteps
    <3>2. OffForAReason'
      BY <1>1, <3>1 DEF OffForAReason, OnFile
    <3> QED BY <1>7, <2>2, <2>3, <3>2 DEF Inv
  <2>5. CASE old[1].op # "runtime"
    BY <1>1, <1>7, <1>8, <2>1, <2>2, <2>3, <2>5 DEF Inv, OffForAReason
  <2> QED BY <2>4, <2>5
<1>12. CASE t = "ota"
  <2>1. todo'["radio"] = todo["radio"] /\ todo'["console"] = todo["console"]
    BY <1>3, <1>4, <1>12
  <2>2. \/ param' = param /\ otaSuspended' = otaSuspended
        \/ param' \/ otaSuspended'
    <3>1. CASE old[1].op = "runtime"
      <4>1. param' = old[1].arg /\ otaSuspended' = ~old[1].arg
        BY <1>1, <1>12, <3>1
      <4> QED BY <1>8, <4>1
    <3>2. CASE old[1].op # "runtime"
      BY <1>1, <3>2
    <3> QED BY <3>1, <3>2
  <2>3. OffForAReason'
    BY <1>1, <2>2 DEF Inv, OffForAReason
  <2>4. RadioSteps(todo'["radio"], suspended', IsIdle')
    BY <1>1, <1>8, <2>1, RadioOn DEF Inv
  <2> QED BY <1>7, <1>8, <2>1, <2>3, <2>4 DEF Inv
<1> QED BY <1>10, <1>11, <1>12 DEF Tasks, Callers

\* A step that leaves the tasks' steps, the parameter and the suspension alone.
LEMMA InvKept ==
  ASSUME Inv, TypeOK', todo' = todo, UNCHANGED <<param, file, unsaved, suspended, otaSuspended>>,
         RadioSteps(todo["radio"], suspended, IsIdle')
  PROVE  Inv'
BY DEF Inv, TypeInv, OffForAReason, OnFile

\* A step of RadioTask that takes the head of its steps and adds none.
LEMMA RadioKept ==
  ASSUME Inv, TypeOK', NEW s \in Seq(Steps), todo' = [todo EXCEPT !["radio"] = s],
         UNCHANGED <<param, file, unsaved, otaSuspended>>,
         RadioSteps(s, suspended', IsIdle')
  PROVE  Inv'
<1>1. todo \in [Tasks -> Seq(Steps)] /\ {"radio", "console", "ota"} \subseteq Tasks
  BY DEF Inv, TypeInv, Tasks, Callers
<1>2. todo' \in [Tasks -> Seq(Steps)] /\ todo'["radio"] = s
      /\ todo'["console"] = todo["console"] /\ todo'["ota"] = todo["ota"]
  BY <1>1
<1> QED BY <1>2 DEF Inv, TypeInv, OffForAReason, OnFile

\* RadioTask at a step that is neither of the suspension's nor of its end.
LEMMA RadioFree ==
  ASSUME Inv, todo["radio"] # <<>>,
         Head(todo["radio"]).op \notin {"idle", "suspend", "unsuspend"},
         NEW idle \in BOOLEAN
  PROVE  /\ suspended = FALSE
         /\ RadioSteps(todo["radio"], FALSE, idle)
         /\ <<>> \o Tail(todo["radio"]) \in Seq(Steps)
         /\ RadioSteps(<<>> \o Tail(todo["radio"]), FALSE, idle)
<1> DEFINE old == todo["radio"]
<1>1. old \in Seq(Steps) /\ suspended \in BOOLEAN /\ IsIdle \in BOOLEAN
      /\ RadioSteps(old, suspended, IsIdle)
  BY DEF Inv, TypeInv, TypeOK, Tasks, IsIdle
<1> HIDE DEF old
<1>2. old # <<>> /\ old[1] = Head(old) /\ Len(old) \in Nat \ {0} /\ 1 \in 1 .. Len(old)
  BY <1>1, Nonempty DEF old
<1>3. old[1].op \notin {"idle", "suspend", "unsuspend"}
  BY <1>2 DEF old
<1>4. suspended = FALSE
  BY <1>1, <1>2, <1>3 DEF RadioSteps
<1>5. RadioSteps(old, FALSE, idle)
  BY <1>1, <1>3, <1>4 DEF RadioSteps
<1>6. <<>> \in Seq(Continuations) /\ <<>> \in Seq(Steps)
  OBVIOUS
<1>7. <<>> \o Tail(old) \in Seq(Steps)
  BY <1>1, <1>2, <1>6, Continued
<1>8. RadioSteps(<<>> \o Tail(old), FALSE, idle)
  BY <1>1, <1>2, <1>3, <1>5, <1>6, RadioContinued
<1> QED BY <1>4, <1>5, <1>7, <1>8 DEF old

LEMMA TakeStep ==
  ASSUME Inv, Take
  PROVE  Inv'
<1> DEFINE s == IF enabled
                THEN IF suspended THEN Resume ELSE <<Do("ifStart"), Do("service")>>
                ELSE IF suspended THEN <<>> ELSE <<Do("idle"), Do("suspend")>>
<1>1. todo' = [todo EXCEPT !["radio"] = s]
  BY DEF Take
<1>2. suspended \in BOOLEAN /\ (suspended => IsIdle) /\ IsIdle \in BOOLEAN
  BY DEF Inv, TypeInv, TypeOK, RadioSteps, IsIdle
<1>3. TypeOK' /\ suspended' = suspended /\ IsIdle' = IsIdle
      /\ UNCHANGED <<param, file, unsaved, otaSuspended>>
  BY DEF Take, Inv, TypeInv, TypeOK, IsIdle, stored, flags, ota
<1>4. RadioSteps(s, suspended, IsIdle)
  <2>1. CASE suspended
    <3>1. suspended = TRUE /\ IsIdle = TRUE
      BY <1>2, <2>1
    <3>2. s = Resume \/ s = <<>>
      BY <2>1
    <3>3. RadioSteps(<<>>, TRUE, TRUE)
      BY NoSteps
    <3> QED BY <3>1, <3>2, <3>3, Begun
  <2>2. CASE ~suspended
    <3>1. suspended = FALSE
      BY <1>2, <2>2
    <3>2. s = <<Do("ifStart"), Do("service")>> \/ s = <<Do("idle"), Do("suspend")>>
      BY <2>2
    <3> QED BY <3>1, <3>2, Begun
  <2> QED BY <2>1, <2>2
<1>5. s \in Seq(Steps)
  <2>1. \A o \in AccessOps \cup RadioOps : Do(o) \in Steps
    BY DEF Steps
  <2>2. /\ Do("unsuspend") \in Steps /\ Do("ifDetached") \in Steps
        /\ Do("requestStart") \in Steps /\ Do("ifStart") \in Steps
        /\ Do("service") \in Steps /\ Do("idle") \in Steps /\ Do("suspend") \in Steps
    BY <2>1 DEF AccessOps, RadioOps
  <2>3. /\ Resume \in Seq(Steps) /\ <<Do("ifStart"), Do("service")>> \in Seq(Steps)
        /\ <<>> \in Seq(Steps) /\ <<Do("idle"), Do("suspend")>> \in Seq(Steps)
    BY <2>2 DEF Resume
  <2> QED BY <2>3
<1> HIDE DEF s
<1> QED BY <1>1, <1>3, <1>4, <1>5, RadioKept

LEMMA SuspensionSteps ==
  ASSUME Inv, Idle \/ Suspend \/ Unsuspend
  PROVE  Inv'
<1> DEFINE old == todo["radio"]
           new == <<>> \o Tail(old)
<1>1. old \in Seq(Steps) /\ suspended \in BOOLEAN /\ IsIdle \in BOOLEAN
      /\ RadioSteps(old, suspended, IsIdle)
  BY DEF Inv, TypeInv, TypeOK, Tasks, IsIdle
<1>2. todo' = [todo EXCEPT !["radio"] = new] /\ old # <<>>
  BY DEF Idle, Suspend, Unsuspend, At, Continue
<1>3. TypeOK' /\ UNCHANGED <<param, file, unsaved, otaSuspended>>
  BY DEF Idle, Suspend, Unsuspend, Inv, TypeInv, TypeOK, stored, flags, radio, ota
<1>4. Head(old).op = old[1].op /\ Len(old) \in Nat \ {0} /\ 1 \in 1 .. Len(old)
  BY <1>1, <1>2, Nonempty
<1>5. <<>> \in Seq(Steps) /\ Len(<<>>) = 0
  OBVIOUS
<1>6. /\ new \in Seq(Steps) /\ Len(new) = Len(old) - 1
      /\ \A k \in 1 .. Len(new) : new[k] = old[k + 1]
  <2>1. /\ new \in Seq(Steps) /\ Len(new) = Len(<<>>) + Len(old) - 1
        /\ \A k \in 1 .. Len(new) :
             \/ k <= Len(<<>>) /\ new[k] = <<>>[k]
             \/ k > Len(<<>>) /\ new[k] = old[k - Len(<<>>) + 1]
    BY <1>1, <1>2, <1>5, Continued
  <2> HIDE DEF new
  <2>2. ASSUME NEW k \in 1 .. Len(new) PROVE new[k] = old[k + 1]
    <3>1. ~(k <= Len(<<>>)) /\ k - Len(<<>>) + 1 = k + 1
      BY <1>5
    <3> QED BY <2>1, <3>1
  <2> QED BY <1>4, <1>5, <2>1, <2>2
<1> HIDE DEF old, new
<1>7. CASE Idle
  <2>1. old[1].op = "idle" /\ suspended' = suspended /\ IsIdle'
    BY <1>4, <1>7 DEF Idle, At, IsIdle, old
  <2>2. suspended = FALSE
    BY <1>1, <1>2, <2>1 DEF RadioSteps
  <2>3. RadioSteps(new, FALSE, TRUE)
    BY <1>1, <1>4, <1>6, <2>1 DEF RadioSteps
  <2> QED BY <1>2, <1>3, <1>6, <2>1, <2>2, <2>3, RadioKept
<1>8. CASE Suspend
  <2>1. old[1].op = "suspend" /\ suspended' = TRUE /\ IsIdle' = IsIdle
    BY <1>4, <1>8 DEF Suspend, At, IsIdle, old, radio
  <2>2. Len(old) = 1 /\ IsIdle = TRUE
    BY <1>1, <1>4, <2>1 DEF RadioSteps
  <2>3. new = <<>>
    BY <1>6, <2>2, EmptySeq
  <2>4. RadioSteps(new, TRUE, TRUE)
    BY <2>3, NoSteps
  <2> QED BY <1>2, <1>3, <1>6, <2>1, <2>2, <2>4, RadioKept
<1>9. CASE Unsuspend
  <2>1. old[1].op = "unsuspend" /\ suspended' = FALSE /\ IsIdle' = IsIdle
    BY <1>4, <1>9 DEF Unsuspend, At, IsIdle, old, radio
  <2>2. RadioSteps(new, FALSE, IsIdle)
    BY <1>1, <1>4, <1>6, <2>1 DEF RadioSteps
  <2> QED BY <1>2, <1>3, <1>6, <2>1, <2>2, RadioKept
<1> QED BY <1>7, <1>8, <1>9

LEMMA ServiceSteps ==
  ASSUME Inv, IfStart \/ Service \/ CheckStallWatchdog
  PROVE  Inv'
<1> DEFINE new == <<>> \o Tail(todo["radio"])
<1>1. /\ todo["radio"] # <<>>
      /\ Head(todo["radio"]).op \notin {"idle", "suspend", "unsuspend"}
  BY DEF IfStart, Service, CheckStallWatchdog, At
<1>2. IsIdle' \in BOOLEAN
  BY DEF IsIdle
<1>3. suspended = FALSE /\ RadioSteps(todo["radio"], FALSE, IsIdle')
      /\ new \in Seq(Steps) /\ RadioSteps(new, FALSE, IsIdle')
  BY <1>1, <1>2, RadioFree
<1>4. TypeOK' /\ UNCHANGED <<param, file, unsaved, suspended, otaSuspended>>
  <2>1. /\ UNCHANGED <<param, file, unsaved, suspended, otaSuspended, backend, enabled, attached,
                       overlapped, upload>>
        /\ start' \in {start, FALSE}
        /\ timer' \in {timer, "recent"} /\ chip' \in {chip, "active"}
    BY DEF IfStart, Service, CheckStallWatchdog, stored, flags, radio, ota
  <2>2. TypeOK
    BY DEF Inv, TypeInv
  <2>3. notified' \in 0 .. 2 /\ got' \in 0 .. 2
    <3>1. CASE IfStart
      <4>1. notified' = notified /\ (got' = got \/ got' = IF got > 0 THEN got - 1 ELSE 0)
        BY <3>1 DEF IfStart, radio
      <4> QED BY <2>2, <4>1 DEF TypeOK
    <3>2. CASE Service
      BY <2>2, <3>2 DEF Service, TypeOK
    <3>3. CASE CheckStallWatchdog
      BY <2>2, <3>3 DEF CheckStallWatchdog, TypeOK
    <3> QED BY <3>1, <3>2, <3>3
  <2>4. {param, backend, enabled, suspended, attached, start, otaSuspended,
         overlapped, unsaved}' \subseteq BOOLEAN
    BY <2>1, <2>2 DEF TypeOK
  <2> QED BY <2>1, <2>2, <2>3, <2>4 DEF TypeOK
<1>5. CASE IfStart \/ CheckStallWatchdog
  <2>1. todo' = [todo EXCEPT !["radio"] = new]
    BY <1>5 DEF IfStart, CheckStallWatchdog, Continue
  <2> HIDE DEF new
  <2> QED BY <1>3, <1>4, <2>1, RadioKept
<1>6. CASE Service
  <2>1. todo' = todo
    BY <1>6 DEF Service
  <2> QED BY <1>3, <1>4, <2>1, InvKept
<1> QED BY <1>5, <1>6

LEMMA ChipSteps ==
  ASSUME Inv, Finish \/ Hang \/ Elapse
  PROVE  Inv'
<1>1. IsIdle = FALSE /\ IsIdle' \in BOOLEAN
  BY DEF Finish, Hang, Elapse, IsIdle
<1>2. /\ todo' = todo /\ UNCHANGED <<param, file, unsaved, suspended, otaSuspended>>
      /\ notified' \in {notified, More(notified)}
      /\ UNCHANGED <<backend, enabled, attached, start, got, upload, overlapped>>
      /\ timer' \in {timer, "old"} /\ chip' \in {chip, "done", "hung"}
  BY DEF Finish, Hang, Elapse, stored, flags, ota
<1>3. More(notified) \in 0 .. 2
  BY DEF Inv, TypeInv, TypeOK, More
<1>4. TypeOK'
  BY <1>2, <1>3 DEF Inv, TypeInv, TypeOK
<1>5. suspended \in BOOLEAN /\ RadioSteps(todo["radio"], suspended, FALSE)
  BY <1>1 DEF Inv, TypeInv, TypeOK
<1>6. RadioSteps(todo["radio"], suspended, IsIdle')
  BY <1>1, <1>5, RadioBusy
<1> QED BY <1>2, <1>4, <1>6, InvKept

\* After a command the radio is on in memory, or not known to be on in the file.
LEMMA CommandSteps ==
  ASSUME Inv, \/ WriteEnable \/ WriteEnableFails \/ WriteOther \/ WriteOtherFails
              \/ LoadParams \/ LoadNothing
  PROVE  Inv'
<1> DEFINE G(body) == /\ todo["console"] = <<>>
                      /\ todo' = [todo EXCEPT !["console"] = body]
                      /\ UNCHANGED <<backend, flags, radio, notified, ota, overlapped>>
           Fits(body) == body = <<>> \/ \E v \in BOOLEAN : body = Runtime(v) /\ (v \/ ~OnFile')
           Held == /\ param' \in BOOLEAN /\ unsaved' \in BOOLEAN
                   /\ file' \in {"on", "off", "gone"}
                   /\ param' \/ ~OnFile'
<1>1. \A body : Command(body) \/ Failing(body) => G(body)
  BY DEF Command, Failing, Given
<1>2. param \in BOOLEAN /\ unsaved \in BOOLEAN /\ file \in {"on", "off", "gone"}
  BY DEF Inv, TypeInv, TypeOK
<1> HIDE DEF G
<1>3. \E body : G(body) /\ Fits(body) /\ Held
  <2>1. CASE WriteEnable
    <3>1. PICK v \in BOOLEAN : /\ Command(Runtime(v))
                               /\ param' = v /\ file' = Saved(v) /\ unsaved' = FALSE
      BY <2>1 DEF WriteEnable
    <3>2. Held /\ (v \/ ~OnFile')
      BY <3>1 DEF Saved, OnFile
    <3> QED BY <1>1, <3>1, <3>2
  <2>2. CASE WriteEnableFails
    <3>1. PICK v \in BOOLEAN :
             /\ \/ Failing(<<>>) /\ file' \in {file, "gone"}
                \/ Failing(Runtime(v)) /\ file' = "gone"
             /\ param' = v /\ unsaved' = ~v
      BY <2>2 DEF WriteEnableFails
    <3>2. Held
      BY <1>2, <3>1 DEF OnFile
    <3>3. G(<<>>) \/ (G(Runtime(v)) /\ ~OnFile')
      BY <1>1, <3>1 DEF OnFile
    <3> QED BY <3>2, <3>3
  <2>3. CASE WriteOther
    <3>1. G(<<>>) /\ file' = Saved(param) /\ unsaved' = FALSE /\ param' = param
      BY <1>1, <2>3 DEF WriteOther
    <3>2. Held
      BY <1>2, <3>1 DEF Saved, OnFile
    <3> QED BY <3>1, <3>2
  <2>4. CASE WriteOtherFails
    <3>1. G(<<>>) /\ file' = "gone" /\ unsaved' = unsaved /\ param' = param
      BY <1>1, <2>4 DEF WriteOtherFails
    <3>2. Held
      BY <1>2, <3>1 DEF OnFile
    <3> QED BY <3>1, <3>2
  <2>5. CASE LoadParams
    <3>1. /\ G(Runtime(Read)) /\ Read \in BOOLEAN
          /\ file' = file /\ unsaved' = FALSE /\ param' = Read
      BY <1>1, <2>5 DEF LoadParams, Read
    <3>2. Held /\ (Read \/ ~OnFile')
      BY <1>2, <3>1 DEF Read, OnFile
    <3> QED BY <3>1, <3>2
  <2>6. CASE LoadNothing
    <3>1. PICK body \in {<<>>, Runtime(param)} : Command(body)
      BY <2>6 DEF LoadNothing
    <3>2. file' = "gone" /\ unsaved' = unsaved /\ param' = param
      BY <2>6 DEF LoadNothing
    <3>3. Held /\ ~OnFile'
      BY <1>2, <3>2 DEF OnFile
    <3>4. Fits(body)
      BY <1>2, <3>1, <3>3
    <3> QED BY <1>1, <3>1, <3>3, <3>4
  <2> QED BY <2>1, <2>2, <2>3, <2>4, <2>5, <2>6
<1>4. PICK body : G(body) /\ Fits(body) /\ Held
  BY <1>3
<1>5. todo \in [Tasks -> Seq(Steps)] /\ {"radio", "console", "ota"} \subseteq Tasks
  BY DEF Inv, TypeInv, Tasks, Callers
<1>6. body \in Seq(Steps) /\ ConsoleSteps(body, OnFile')
  <2>1. CASE body = <<>>
    <3>1. ConsoleSteps(<<>>, OnFile')
      BY DEF ConsoleSteps
    <3> QED BY <2>1, <3>1
  <2>2. ASSUME NEW v \in BOOLEAN, body = Runtime(v), v \/ ~OnFile'
        PROVE  body \in Seq(Steps) /\ ConsoleSteps(body, OnFile')
    <3>1. With("runtime", v) \in Steps
      BY DEF Steps, ArgOps
    <3>2. Runtime(v) \in Seq(Steps)
      BY <3>1 DEF Runtime
    <3>3. ConsoleSteps(Runtime(v), OnFile')
      BY <2>2 DEF ConsoleSteps, Runtime, With
    <3> QED BY <2>2, <3>2, <3>3
  <2> QED BY <1>4, <2>1, <2>2
<1>7. /\ todo' \in [Tasks -> Seq(Steps)] /\ todo'["console"] = body
      /\ todo'["radio"] = todo["radio"]
  BY <1>4, <1>5, <1>6 DEF G
<1>8. UNCHANGED <<backend, flags, radio, notified, ota, overlapped>>
  BY <1>4 DEF G
<1>9. TypeOK'
  BY <1>4, <1>8 DEF Inv, TypeInv, TypeOK, flags, radio, ota
<1>10. RadioSteps(todo'["radio"], suspended', IsIdle')
  BY <1>7, <1>8 DEF Inv, IsIdle, flags, radio
<1>11. OffForAReason'
  BY <1>4 DEF OffForAReason, OnFile
<1> QED BY <1>6, <1>7, <1>9, <1>10, <1>11 DEF Inv, TypeInv

\* The upload begins its steps, or ends without any.
LEMMA UploadSteps ==
  ASSUME Inv, Begin \/ Fail \/ Succeed
  PROVE  Inv'
<1>1. PICK body : /\ todo["ota"] = <<>>
                  /\ todo' = [todo EXCEPT !["ota"] = body]
                  /\ UNCHANGED <<stored, flags, radio, notified, otaSuspended, overlapped>>
                  /\ upload' \in {"none", "running", "reboot"}
                  /\ \/ body = <<>>
                     \/ \E v \in BOOLEAN : body = Runtime(v)
  <2>1. CASE Begin
    BY <2>1 DEF Begin
  <2>2. CASE Fail
    BY <2>2 DEF Fail, End
  <2>3. CASE Succeed
    BY <2>3 DEF Succeed, End
  <2> QED BY <2>1, <2>2, <2>3
<1>2. todo \in [Tasks -> Seq(Steps)] /\ {"radio", "console", "ota"} \subseteq Tasks
  BY DEF Inv, TypeInv, Tasks, Callers
<1>3. UNCHANGED <<param, file, unsaved, suspended, otaSuspended>> /\ IsIdle' = IsIdle
      /\ param \in BOOLEAN /\ OnFile \in BOOLEAN /\ OnFile' = OnFile
  BY <1>1 DEF Inv, TypeInv, TypeOK, IsIdle, OnFile, stored, flags, radio
<1>4. body \in Seq(Steps)
  <2>1. \A v \in BOOLEAN : With("runtime", v) \in Steps
    BY DEF Steps, ArgOps
  <2>2. \A v \in BOOLEAN : Runtime(v) \in Seq(Steps)
    BY <2>1 DEF Runtime
  <2>3. <<>> \in Seq(Steps)
    OBVIOUS
  <2> QED BY <1>1, <2>2, <2>3
<1>5. /\ todo' \in [Tasks -> Seq(Steps)]
      /\ todo'["radio"] = todo["radio"] /\ todo'["console"] = todo["console"]
  BY <1>1, <1>2, <1>4
<1>6. TypeOK'
  BY <1>1 DEF Inv, TypeInv, TypeOK, stored, flags, radio
<1>7. OffForAReason'
  BY <1>3 DEF Inv, OffForAReason
<1> QED BY <1>3, <1>5, <1>6, <1>7 DEF Inv, TypeInv

LEMMA RebootStep ==
  ASSUME Inv, Reboot
  PROVE  Inv'
<1>1. Booted(Read) /\ file' = file /\ Read \in BOOLEAN
  BY DEF Reboot, Read
<1>2. todo' = [t \in Tasks |-> <<>>]
  BY <1>1 DEF Booted, NoTasks
<1>3. /\ todo'["radio"] = <<>> /\ todo'["console"] = <<>> /\ todo'["ota"] = <<>>
      /\ todo' \in [Tasks -> Seq(Steps)]
  BY <1>2 DEF Tasks, Callers
<1>4. TypeOK'
  <2>1. notified' = 1 \/ notified' = 0
    BY <1>1 DEF Booted
  <2>2. {param, backend, enabled, suspended, attached, start, otaSuspended,
         overlapped, unsaved}' \subseteq BOOLEAN
    BY <1>1 DEF Booted
  <2>3. timer' = "zero" /\ chip' = "idle" /\ got' = 0 /\ upload' = "none"
    BY <1>1 DEF Booted
  <2>4. file' \in {"on", "off", "gone"}
    BY <1>1 DEF Inv, TypeInv, TypeOK
  <2> QED BY <2>1, <2>2, <2>3, <2>4 DEF TypeOK
<1>5. suspended' = FALSE /\ param' = Read
  BY <1>1 DEF Booted
<1>6. RadioSteps(<<>>, FALSE, IsIdle') /\ ConsoleSteps(<<>>, OnFile')
  BY NoSteps
<1>7. OffForAReason'
  BY <1>1, <1>5 DEF Read, OffForAReason
<1> QED BY <1>3, <1>4, <1>5, <1>6, <1>7 DEF Inv, TypeInv

LEMMA InitInv == Init => Inv
<1> SUFFICES ASSUME Init PROVE Inv
  OBVIOUS
<1>1. /\ todo = [t \in Tasks |-> <<>>] /\ file \in {"on", "off"}
      /\ param = Read /\ suspended = FALSE
  BY DEF Init, NoTasks
<1>2. /\ todo["radio"] = <<>> /\ todo["console"] = <<>> /\ todo["ota"] = <<>>
      /\ todo \in [Tasks -> Seq(Steps)]
  BY <1>1 DEF Tasks, Callers
<1>3. TypeOK
  <2>1. notified = 1 \/ notified = 0
    BY DEF Init
  <2>2. {param, backend, enabled, suspended, attached, start, otaSuspended,
         overlapped, unsaved} \subseteq BOOLEAN
    BY DEF Init, Read
  <2>3. timer = "zero" /\ chip = "idle" /\ got = 0 /\ upload = "none"
    BY DEF Init
  <2> QED BY <1>1, <2>1, <2>2, <2>3 DEF TypeOK
<1>4. RadioSteps(<<>>, FALSE, IsIdle) /\ ConsoleSteps(<<>>, OnFile)
  BY NoSteps
<1>5. OffForAReason
  BY <1>1 DEF Read, OffForAReason
<1> QED BY <1>1, <1>2, <1>3, <1>4, <1>5 DEF Inv, TypeInv

\* The three tasks, the chip and its interrupt keep the steps that are left in order.
THEOREM Invariance == Spec => []Inv
<1>1. Init => Inv
  BY InitInv
<1>2. Inv /\ [Next]_vars => Inv'
  <2> SUFFICES ASSUME Inv, [Next]_vars PROVE Inv'
    OBVIOUS
  <2>1. CASE Take
    BY <2>1, TakeStep
  <2>2. CASE Idle \/ Suspend \/ Unsuspend
    BY <2>2, SuspensionSteps
  <2>3. CASE IfStart \/ Service \/ CheckStallWatchdog
    BY <2>3, ServiceSteps
  <2>4. CASE Access("radio")
    BY <2>4, AccessKeepsInv DEF Tasks
  <2>5. CASE Finish \/ Hang \/ Elapse
    BY <2>5, ChipSteps
  <2>6. CASE \E t \in Callers : Access(t)
    BY <2>6, AccessKeepsInv DEF Tasks
  <2>7. CASE \/ WriteEnable \/ WriteEnableFails \/ WriteOther \/ WriteOtherFails
             \/ LoadParams \/ LoadNothing
    BY <2>7, CommandSteps
  <2>8. CASE Begin \/ Fail \/ Succeed
    BY <2>8, UploadSteps
  <2>9. CASE Reboot
    BY <2>9, RebootStep
  <2>10. CASE UNCHANGED vars
    BY <2>10 DEF vars, Inv, TypeInv, TypeOK, OffForAReason, OnFile, IsIdle
  <2> QED BY <2>1, <2>2, <2>3, <2>4, <2>5, <2>6, <2>7, <2>8, <2>9, <2>10
          DEF Next, RadioTask
<1> QED BY <1>1, <1>2, PTL DEF Spec

(* Every variable keeps its type: the notifications never pass the count   *)
(* that the model caps them at.                                            *)
THEOREM TypeCorrect == Spec => []TypeOK
<1>1. Inv => TypeOK
  BY DEF Inv, TypeInv
<1> QED BY <1>1, Invariance, PTL

(* SuspendRadio sets m_radioSuspended only after it has idled the chip and *)
(* stopped the watchdog, and nothing starts either before ResumeRadio, with*)
(* the flags of SetEnabled written in between by any task.                 *)
THEOREM SuspendedRadioIsIdle == Spec => []SuspendedIsIdle
<1>1. Inv => SuspendedIsIdle
  BY DEF Inv, RadioSteps, IsIdle, SuspendedIsIdle
<1> QED BY <1>1, Invariance, PTL

(* A radio that the file has on is off in memory only while an upload's    *)
(* suspension is noted, or because the save of the write that switched it  *)
(* off has failed: SetParam changes the memory first and does not change it*)
(* back.                                                                   *)
THEOREM RadioIsOffForAReason == Spec => []OffForAReason
<1>1. Inv => OffForAReason
  BY DEF Inv
<1> QED BY <1>1, Invariance, PTL

=============================================================================
