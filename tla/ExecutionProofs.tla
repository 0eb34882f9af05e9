-------------------------- MODULE ExecutionProofs --------------------------
(***************************************************************************)
(* What Execution keeps true for any graph of tools, any number of calls,  *)
(* any limits on depth and breadth and, unless a theorem says otherwise,   *)
(* any faults.                                                             *)
(***************************************************************************)
EXTENDS Execution, SequenceTheorems, FiniteSetTheorems, WellFoundedInduction, TLAPS

(* What FailNaming, Run and Unwind do to the stack of a call.              *)
Ended(k) ==
  /\ pc' = [pc EXCEPT ![k] = "done"]
  /\ stack' = [stack EXCEPT ![k] = <<>>]

Popped(k) ==
  /\ Depth(k) > 0
  /\ pc' = [pc EXCEPT ![k] = "failing"]
  /\ stack' = [stack EXCEPT ![k] = SubSeq(@, 1, Len(@) - 1)]

Returned(k) ==
  /\ Depth(k) > 0
  /\ UNCHANGED pc
  /\ stack' = [stack EXCEPT ![k] = Resumed(k)]

Codes == {0, 200, 400, 401, 403, 404, 409, 422, 500, 502}

(* What they do to its log and to its reply. *)
Logged(k)  == \E written \in Seq(EventType) : log' = [log EXCEPT ![k] = written]
Replied(k) == \E code \in Codes : reply' = [reply EXCEPT ![k] = code]

(* The frames whose row is known: all but the last one while it resolves. *)
Settled(k, i) == i < Len(stack[k]) \/ pc[k] # "resolve"

Resolution ==
  \A k \in Calls : pc[k] \in Running =>
    \A i \in 1..Len(stack[k]) : Settled(k, i) => stack[k][i].ver # 0

-----------------------------------------------------------------------------
LEMMA ZeroOrMore == \A n \in Nat : n = 0 \/ n > 0
OBVIOUS

LEMMA AdvancedFrame ==
  \A frame \in FrameType : [frame EXCEPT !.next = @ + 1] \in FrameType
BY DEF FrameType

(* The frames of a call that runs. *)
LEMMA FramesTyped ==
  ASSUME TypeOK, NEW k \in Calls, pc[k] \in Running
  PROVE  /\ stack[k] \in Seq(FrameType)
         /\ Len(stack[k]) \in Nat \ {0}
         /\ \A i \in 1..Len(stack[k]) : stack[k][i] \in FrameType
         /\ Top(k) \in FrameType
         /\ Depth(k) \in Nat /\ Depth(k) = Len(stack[k]) - 1
         /\ Depth(k) = 0 \/ Depth(k) > 0
         /\ Via(k) \in SUBSET Tools
<1>1. stack[k] \in Seq(FrameType) /\ stack[k] # <<>>
  BY DEF TypeOK
<1>2. Len(stack[k]) \in Nat \ {0}
  BY <1>1, EmptySeq
<1>3. \A i \in 1..Len(stack[k]) : stack[k][i] \in FrameType
  BY <1>1, ElementOfSeq
<1>4. Depth(k) = Len(stack[k]) - 1
  BY DEF Depth
<1>5. Depth(k) \in Nat
  BY <1>2, <1>4
<1>8. Depth(k) = 0 \/ Depth(k) > 0
  BY <1>5, ZeroOrMore
<1>6. Top(k) \in FrameType
  BY <1>2, <1>3 DEF Top
<1>7. Via(k) \in SUBSET Tools
  <2>1. CASE Depth(k) = 0
    BY <2>1 DEF Via
  <2>2. CASE Depth(k) > 0
    <3>1. Depth(k) \in 1..Len(stack[k])
      BY <1>2, <1>4, <1>5, <2>2
    <3>2. stack[k][Depth(k)].tool \in Tools
      BY <1>3, <3>1 DEF FrameType
    <3> QED
      BY <2>2, <3>2 DEF Via
  <2> QED
    BY <1>8, <2>1, <2>2
<1> QED
  BY <1>1, <1>2, <1>3, <1>4, <1>5, <1>6, <1>7, <1>8

LEMMA EventTyped ==
  ASSUME TypeOK, NEW k \in Calls, pc[k] \in Running,
         NEW outcome \in {"success", "error"}, NEW version \in {0} \cup Versions
  PROVE  /\ Event(k, outcome, version) \in EventType
         /\ Append(log[k], Event(k, outcome, version)) \in Seq(EventType)
<1>1. SelfCall(k) \in BOOLEAN
  BY DEF SelfCall
<1>2. Top(k).tool \in Tools
  BY FramesTyped DEF FrameType
<1>3. Event(k, outcome, version) \in EventType
  BY <1>1, <1>2, FramesTyped, Zenon DEF Event, EventType
<1>4. log[k] \in Seq(EventType)
  BY DEF TypeOK
<1> QED
  BY <1>3, <1>4

LEMMA UnwindLogs ==
  ASSUME TypeOK, NEW k \in Calls, pc[k] \in Running,
         NEW written \in Seq(EventType), Unwind(k, written)
  PROVE  Logged(k) /\ Replied(k)
<1> DEFINE event == [tool |-> stack[k][1].tool, version |-> stack[k][1].pin, outcome |-> "error",
                     self |-> FALSE, via |-> {}, depth |-> 0]
<1>1. stack[k][1] \in FrameType
  BY FramesTyped
<1>2. event \in EventType
  BY <1>1 DEF FrameType, EventType
<1>3. log' = [log EXCEPT ![k] = Append(written, event)]
  BY DEF Unwind
<1> HIDE DEF event
<1>4. Append(written, event) \in Seq(EventType)
  BY <1>2
<1> QED
  BY <1>3, <1>4 DEF Unwind, Logged, Replied, Codes

LEMMA FailLogs ==
  ASSUME TypeOK, NEW k \in Calls, pc[k] \in Running,
         NEW status \in Codes, NEW version \in {0} \cup Versions,
         FailNaming(k, status, version)
  PROVE  Logged(k) /\ Replied(k)
<1> DEFINE written == Append(log[k], Event(k, "error", version))
<1>1. written \in Seq(EventType)
  BY EventTyped
<1>2. CASE Unwind(k, written)
  BY <1>1, <1>2, UnwindLogs
<1>3. CASE log' = [log EXCEPT ![k] = written] /\ reply' = [reply EXCEPT ![k] = status]
  BY <1>1, <1>3, Zenon DEF Logged, Replied
<1> QED
  BY <1>2, <1>3, Zenon DEF FailNaming

(* fail() ends the call at the root, and gives up one frame elsewhere;     *)
(* when the write of the event throws, the call ends.                      *)
LEMMA FailShape ==
  ASSUME TypeOK, NEW k \in Calls, pc[k] \in Running,
         NEW status, NEW version, FailNaming(k, status, version)
  PROVE  UNCHANGED <<asker, barred, tables>> /\ (Ended(k) \/ Popped(k))
<1>1. /\ Depth(k) \in Nat /\ Depth(k) = Len(stack[k]) - 1
      /\ Depth(k) = 0 \/ Depth(k) > 0
  BY FramesTyped
<1>2. CASE stack' = [stack EXCEPT ![k] = <<>>] /\ pc' = [pc EXCEPT ![k] = "done"]
           /\ UNCHANGED <<asker, barred, tables>>
  BY <1>2 DEF Ended
<1>3. CASE /\ stack' = [stack EXCEPT ![k] = SubSeq(@, 1, Len(@) - 1)]
           /\ pc' = [pc EXCEPT ![k] = IF Depth(k) = 0 THEN "done" ELSE "failing"]
           /\ UNCHANGED <<asker, barred, tables>>
  <2>1. CASE Depth(k) = 0
    <3>1. SubSeq(stack[k], 1, 0) = <<>>
      BY SubSeqEmpty
    <3>2. SubSeq(stack[k], 1, Len(stack[k]) - 1) = <<>>
      BY <1>1, <2>1, <3>1, Zenon
    <3> QED
      BY <1>3, <2>1, <3>2, Zenon DEF Ended
  <2>2. CASE Depth(k) > 0
    <3>1. Depth(k) # 0
      BY <2>2
    <3> QED
      BY <1>3, <2>2, <3>1, Zenon DEF Popped
  <2> QED
    BY <1>1, <2>1, <2>2
<1> QED
  BY <1>2, <1>3 DEF FailNaming, Unwind

LEMMA RunShape ==
  ASSUME TypeOK, NEW k \in Calls, Run(k)
  PROVE  /\ UNCHANGED <<asker, barred, tables>> /\ (Ended(k) \/ Returned(k))
         /\ Logged(k) /\ Replied(k)
<1> DEFINE written == Append(log[k], Event(k, "success", Top(k).ver))
<1>1. pc[k] \in Running
  BY DEF Run, Running
<1>2. Top(k).ver \in {0} \cup Versions
  BY <1>1, FramesTyped DEF FrameType
<1>3. written \in Seq(EventType)
  BY <1>1, <1>2, EventTyped
<1>4. UNCHANGED <<asker, barred, tables>> /\ (Ended(k) \/ Returned(k))
  BY Zenon DEF Run, Unwind, Ended, Returned
<1> HIDE DEF written
<1>5. 200 \in Codes /\ reply[k] \in Codes
  BY DEF TypeOK, Codes
<1>6. CASE Unwind(k, written)
  BY <1>1, <1>3, <1>4, <1>6, UnwindLogs
<1>7. CASE log' = [log EXCEPT ![k] = written] /\ reply' = [reply EXCEPT ![k] = 200]
  BY <1>3, <1>4, <1>5, <1>7, Zenon DEF Logged, Replied
<1>8. CASE log' = [log EXCEPT ![k] = written] /\ UNCHANGED reply
  <2>1. reply' = [reply EXCEPT ![k] = reply[k]]
    BY <1>8 DEF TypeOK
  <2> QED
    BY <1>3, <1>4, <1>5, <1>8, <2>1, Zenon DEF Logged, Replied
<1> QED
  BY <1>4, <1>6, <1>7, <1>8, Zenon DEF Run, written

(* A frame given up leaves the others as they are. *)
LEMMA PoppedFrames ==
  ASSUME TypeOK, NEW k \in Calls, pc[k] \in Running, Popped(k)
  PROVE  /\ stack'[k] \in Seq(FrameType)
         /\ Len(stack'[k]) = Len(stack[k]) - 1
         /\ Len(stack'[k]) > 0
         /\ \A i \in 1..Len(stack'[k]) : stack'[k][i] = stack[k][i]
<1>1. stack'[k] = SubSeq(stack[k], 1, Len(stack[k]) - 1)
  BY DEF Popped, TypeOK
<1>2. \A i \in 1..Len(stack[k]) - 1 : stack[k][i] \in FrameType
  BY FramesTyped
<1>3. Len(stack[k]) \in Nat /\ Len(stack[k]) - 1 > 0
  BY FramesTyped DEF Popped
<1> QED
  BY <1>1, <1>2, <1>3, SubSeqProperties

(* A frame that has run leaves the others as they are, but for the         *)
(* position of its parent.                                                 *)
LEMMA ReturnedFrames ==
  ASSUME TypeOK, NEW k \in Calls, pc[k] \in Running, Returned(k)
  PROVE  /\ stack'[k] \in Seq(FrameType)
         /\ Len(stack'[k]) = Len(stack[k]) - 1
         /\ Len(stack'[k]) > 0
         /\ \A i \in 1..Len(stack'[k]) :
              stack'[k][i] = IF i = Len(stack'[k])
                             THEN [stack[k][i] EXCEPT !.next = @ + 1]
                             ELSE stack[k][i]
<1> DEFINE below  == SubSeq(stack[k], 1, Depth(k))
           parent == [below[Depth(k)] EXCEPT !.next = @ + 1]
<1>0. stack \in [Calls -> Seq(FrameType)]
  BY DEF TypeOK
<1>1. stack'[k] = [below EXCEPT ![Depth(k)] = parent]
  BY <1>0, Zenon DEF Returned, Resumed
<1>2. Depth(k) \in Nat /\ Depth(k) > 0 /\ Depth(k) = Len(stack[k]) - 1
  BY FramesTyped DEF Returned
<1>3. \A i \in 1..Depth(k) : stack[k][i] \in FrameType
  BY <1>2, FramesTyped
<1>4. /\ below \in Seq(FrameType) /\ Len(below) = Depth(k)
      /\ \A i \in 1..Depth(k) : below[i] = stack[k][i]
  BY <1>2, <1>3, SubSeqProperties
<1>5. Depth(k) \in 1..Len(below) /\ Depth(k) \in 1..Depth(k)
  BY <1>2, <1>4
<1>8. parent = [stack[k][Depth(k)] EXCEPT !.next = @ + 1]
  BY <1>4, <1>5
<1>9. parent \in FrameType
  <2>1. stack[k][Depth(k)] \in FrameType
    BY <1>3, <1>5
  <2> QED
    BY <1>8, <2>1, AdvancedFrame, Zenon
<1> HIDE DEF below, parent
<1>6. /\ [below EXCEPT ![Depth(k)] = parent] \in Seq(FrameType)
      /\ Len([below EXCEPT ![Depth(k)] = parent]) = Len(below)
      /\ \A i \in 1..Len(below) :
           [below EXCEPT ![Depth(k)] = parent][i] = IF i = Depth(k) THEN parent ELSE below[i]
  BY <1>4, <1>5, <1>9, ExceptSeq
<1> QED
  BY <1>1, <1>2, <1>4, <1>6, <1>8

-----------------------------------------------------------------------------
(* A step of one call keeps the types when its new frames, events and      *)
(* status have them.                                                       *)
LEMMA CallTypes ==
  ASSUME TypeOK, Resolution, NEW k \in Calls,
         UNCHANGED <<asker, barred, tables>>, Logged(k), Replied(k),
         NEW label \in {"idle", "done", "dead"} \cup Running,
         NEW frames \in Seq(FrameType),
         pc' = [pc EXCEPT ![k] = label],
         stack' = [stack EXCEPT ![k] = frames],
         label \in Running => frames # <<>>,
         \A i \in 1..Len(frames) : frames[i].ver =< Len(store[frames[i].tool]),
         label \in Running => \A i \in 1..Len(frames) :
           (i < Len(frames) \/ label # "resolve") => frames[i].ver # 0
  PROVE  TypeOK' /\ Resolution'
<1>1. log' \in [Calls -> Seq(EventType)]
  BY DEF TypeOK, Logged
<1>2. reply' \in [Calls -> Codes]
  BY DEF TypeOK, Replied, Codes
<1>3. /\ pc' \in [Calls -> {"idle", "done", "dead"} \cup Running]
      /\ stack' \in [Calls -> Seq(FrameType)]
      /\ pc'[k] = label /\ stack'[k] = frames
      /\ \A c \in Calls \ {k} : pc'[c] = pc[c] /\ stack'[c] = stack[c]
  BY DEF TypeOK
<1>4. UNCHANGED <<asker, barred, store, approvals, replica, reviews>>
  BY DEF tables
<1>5. \A c \in Calls :
         /\ pc'[c] \in Running => stack'[c] # <<>>
         /\ \A i \in 1..Len(stack'[c]) :
              stack'[c][i].ver =< Len(store'[stack'[c][i].tool])
  <2>1. ASSUME NEW c \in Calls, c # k
        PROVE  /\ pc[c] \in Running => stack[c] # <<>>
               /\ \A i \in 1..Len(stack[c]) :
                    stack[c][i].ver =< Len(store[stack[c][i].tool])
    BY DEF TypeOK
  <2> QED
    BY <1>3, <1>4, <2>1
<1>6. TypeOK'
  BY <1>1, <1>2, <1>3, <1>4, <1>5 DEF TypeOK, Codes
<1>7. Resolution'
  BY <1>3 DEF Resolution, Settled
<1> QED
  BY <1>6, <1>7

LEMMA EndedTypes ==
  ASSUME TypeOK, Resolution, NEW k \in Calls,
         UNCHANGED <<asker, barred, tables>>, Logged(k), Replied(k), Ended(k)
  PROVE  TypeOK' /\ Resolution'
<1>1. <<>> \in Seq(FrameType) /\ "done" \notin Running
  BY DEF Running
<1>2. 1..Len(<<>>) = {}
  OBVIOUS
<1>3. pc' = [pc EXCEPT ![k] = "done"] /\ stack' = [stack EXCEPT ![k] = <<>>]
  BY DEF Ended
<1>4. \A i \in 1..Len(<<>>) : <<>>[i].ver =< Len(store[<<>>[i].tool])
  BY <1>2
<1> QED
  BY <1>1, <1>3, <1>4, CallTypes, Zenon

LEMMA PoppedTypes ==
  ASSUME TypeOK, Resolution, NEW k \in Calls, pc[k] \in Running,
         UNCHANGED <<asker, barred, tables>>, Logged(k), Replied(k), Popped(k)
  PROVE  TypeOK' /\ Resolution'
<1> DEFINE frames == stack'[k]
<1>1. /\ frames \in Seq(FrameType)
      /\ Len(frames) = Len(stack[k]) - 1 /\ Len(frames) > 0
      /\ \A i \in 1..Len(frames) : frames[i] = stack[k][i]
  BY PoppedFrames
<1>2. frames # <<>>
  BY <1>1, EmptySeq
<1>3. pc' = [pc EXCEPT ![k] = "failing"] /\ stack' = [stack EXCEPT ![k] = frames]
  BY DEF Popped, TypeOK
<1>4. Len(stack[k]) \in Nat
  BY FramesTyped
<1>5. \A i \in 1..Len(frames) : i \in 1..Len(stack[k]) /\ i < Len(stack[k])
  BY <1>1, <1>4
<1>6. \A i \in 1..Len(frames) : frames[i].ver =< Len(store[frames[i].tool])
  BY <1>1, <1>5 DEF TypeOK
<1>7. \A i \in 1..Len(frames) : frames[i].ver # 0
  BY <1>1, <1>5 DEF Resolution, Settled
<1> HIDE DEF frames
<1> QED
  BY <1>1, <1>2, <1>3, <1>6, <1>7, CallTypes DEF Running

LEMMA ReturnedTypes ==
  ASSUME TypeOK, Resolution, NEW k \in Calls, pc[k] \in Running,
         UNCHANGED <<asker, barred, tables>>, Logged(k), Replied(k), Returned(k)
  PROVE  TypeOK' /\ Resolution'
<1> DEFINE frames == stack'[k]
<1>1. /\ frames \in Seq(FrameType)
      /\ Len(frames) = Len(stack[k]) - 1 /\ Len(frames) > 0
      /\ \A i \in 1..Len(frames) :
           frames[i] = IF i = Len(frames) THEN [stack[k][i] EXCEPT !.next = @ + 1]
                                          ELSE stack[k][i]
  BY ReturnedFrames
<1>2. frames # <<>>
  BY <1>1, EmptySeq
<1>3. pc' = [pc EXCEPT ![k] = pc[k]] /\ stack' = [stack EXCEPT ![k] = frames]
  BY DEF Returned, TypeOK
<1>4. Len(stack[k]) \in Nat /\ \A i \in 1..Len(stack[k]) : stack[k][i] \in FrameType
  BY FramesTyped
<1>5. \A i \in 1..Len(frames) : i \in 1..Len(stack[k]) /\ i < Len(stack[k])
  BY <1>1, <1>4
<1>6. \A i \in 1..Len(frames) :
         frames[i].ver = stack[k][i].ver /\ frames[i].tool = stack[k][i].tool
  BY <1>1, <1>4, <1>5 DEF FrameType
<1>7. \A i \in 1..Len(frames) : frames[i].ver =< Len(store[frames[i].tool])
  BY <1>5, <1>6 DEF TypeOK
<1>8. \A i \in 1..Len(frames) : frames[i].ver # 0
  BY <1>5, <1>6 DEF Resolution, Settled
<1> HIDE DEF frames
<1> QED
  BY <1>1, <1>2, <1>3, <1>7, <1>8, CallTypes

LEMMA FailTypes ==
  ASSUME TypeOK, Resolution, NEW k \in Calls, pc[k] \in Running,
         NEW status \in Codes, NEW version \in {0} \cup Versions,
         FailNaming(k, status, version)
  PROVE  TypeOK' /\ Resolution'
BY FailShape, FailLogs, EndedTypes, PoppedTypes, Zenon

(* A step that records nothing and answers nothing. *)
LEMMA Quiet ==
  ASSUME TypeOK, NEW k \in Calls, UNCHANGED <<log, reply>>
  PROVE  Logged(k) /\ Replied(k)
<1>1. log[k] \in Seq(EventType) /\ log' = [log EXCEPT ![k] = log[k]]
  BY DEF TypeOK
<1>2. reply[k] \in Codes /\ reply' = [reply EXCEPT ![k] = reply[k]]
  BY DEF TypeOK, Codes
<1> QED
  BY <1>1, <1>2, Zenon DEF Logged, Replied

(* What resolveTool() finds is a row that is there, at the version asked   *)
(* for when one was.                                                       *)
LEMMA FoundExists ==
  ASSUME TypeOK, NEW t \in Tools, NEW pin \in {0} \cup Versions, NEW ver \in Found(t, pin)
  PROVE  /\ ver \in {0} \cup Versions
         /\ ver =< Len(store[t])
         /\ pin # 0 => ver \in {0, pin}
<1>1. Len(store[t]) \in Nat /\ Len(store[t]) =< MaxVersion
  BY LenProperties DEF TypeOK
<1>2. Len(Seeded[t]) \in Nat
  BY SeededAssumption, LenProperties
<1>3. PICK n \in 0..Len(store[t]) : ver = Resolved(pin, n)
  BY <1>1, <1>2 DEF Found
<1>4. /\ pin = 0 => ver = n
      /\ pin # 0 => ver \in {0, pin}
      /\ ver = 0 \/ ver =< n
  BY <1>1, <1>3, VersionAssumption DEF Resolved, Versions
<1> QED
  BY <1>1, <1>3, <1>4, VersionAssumption DEF Versions

(* The row of a frame that is resolved. *)
LEMMA TopRowTyped ==
  ASSUME TypeOK, NEW k \in Calls, pc[k] \in Running, Top(k).ver # 0
  PROVE  /\ Top(k).ver \in 1..Len(store[Top(k).tool])
         /\ TopRow(k) \in Row
<1>1. Top(k) \in FrameType /\ Len(stack[k]) \in 1..Len(stack[k])
  BY FramesTyped
<1>2. Top(k).ver =< Len(store[Top(k).tool])
  BY <1>1 DEF TypeOK, Top
<1>3. store[Top(k).tool] \in Seq(Row)
  BY <1>1 DEF TypeOK, FrameType
<1>4. Top(k).ver \in 1..Len(store[Top(k).tool])
  BY <1>1, <1>2, <1>3, LenProperties, VersionAssumption DEF FrameType, Versions
<1> QED
  BY <1>3, <1>4, ElementOfSeq DEF TopRow

(* A step of the call that keeps its frames. *)
LEMMA SameFramesTypes ==
  ASSUME TypeOK, Resolution, NEW k \in Calls, pc[k] \in Running \ {"resolve"},
         UNCHANGED <<asker, barred, tables, log, reply, stack>>,
         NEW label \in {"dead"} \cup Running, pc' = [pc EXCEPT ![k] = label]
  PROVE  TypeOK' /\ Resolution'
<1>1. stack[k] \in Seq(FrameType) /\ stack' = [stack EXCEPT ![k] = stack[k]]
  BY DEF TypeOK
<1>2. stack[k] # <<>>
  BY DEF TypeOK
<1>3. \A i \in 1..Len(stack[k]) : stack[k][i].ver =< Len(store[stack[k][i].tool])
  BY DEF TypeOK
<1>4. \A i \in 1..Len(stack[k]) : stack[k][i].ver # 0
  BY DEF Resolution, Settled
<1>5. Logged(k) /\ Replied(k)
  BY Quiet
<1> QED
  BY <1>1, <1>2, <1>3, <1>4, <1>5, CallTypes

LEMMA BeginTypes ==
  ASSUME TypeOK, Resolution, NEW k \in Calls, NEW t \in Tools, NEW pin \in {0} \cup Versions,
         Begin(k, t, pin)
  PROVE  TypeOK' /\ Resolution'
<1>1. Frame(t, pin) \in FrameType /\ Frame(t, pin).ver = 0
  BY DEF Frame, FrameType
<1>2. stack' = [stack EXCEPT ![k] = <<Frame(t, pin)>>] /\ pc' = [pc EXCEPT ![k] = "resolve"]
  BY DEF Begin
<1> HIDE DEF Frame
<1>3. stack' \in [Calls -> Seq(FrameType)]
  BY <1>1, <1>2 DEF TypeOK
<1>4. \A c \in Calls : /\ pc'[c] \in Running => stack'[c] # <<>>
                       /\ \A i \in 1..Len(stack'[c]) :
                            stack'[c][i].ver =< Len(store[stack'[c][i].tool])
  <2> TAKE c \in Calls
  <2>1. CASE c # k
    <3>1. stack'[c] = stack[c] /\ pc'[c] = pc[c]
      BY <1>2, <2>1 DEF TypeOK
    <3> QED
      BY <3>1 DEF TypeOK
  <2>2. CASE c = k
    <3>1. stack'[c] = <<Frame(t, pin)>>
      BY <1>2, <2>2 DEF TypeOK
    <3>2. Len(store[t]) \in Nat /\ Frame(t, pin).tool = t
      BY LenProperties DEF TypeOK, Frame
    <3> QED
      BY <1>1, <3>1, <3>2
  <2> QED
    BY <2>1, <2>2
<1>5. pc' \in [Calls -> {"idle", "done", "dead"} \cup Running]
  BY <1>2 DEF TypeOK, Running
<1>6. barred' \in [Calls -> SUBSET Refs]
  BY DEF Begin, TypeOK
<1>7. TypeOK'
  BY <1>3, <1>4, <1>5, <1>6 DEF Begin, tables, TypeOK
<1>8. Resolution'
  <2> SUFFICES ASSUME NEW c \in Calls, pc'[c] \in Running,
                      NEW i \in 1..Len(stack'[c]), Settled(c, i)'
               PROVE  stack'[c][i].ver # 0
    BY DEF Resolution
  <2>1. CASE c # k
    BY <1>2, <2>1 DEF Resolution, Settled, TypeOK
  <2>2. CASE c = k
    <3>1. stack'[c] = <<Frame(t, pin)>> /\ pc'[c] = "resolve"
      BY <1>2, <2>2 DEF TypeOK
    <3>2. Len(stack'[c]) = 1
      BY <3>1
    <3> QED
      BY <3>1, <3>2 DEF Settled
  <2> QED
    BY <2>1, <2>2
<1> QED
  BY <1>7, <1>8

(* Resolving writes a version that is there into the running frame. *)
LEMMA ResolveFrames ==
  ASSUME TypeOK, NEW k \in Calls, Resolve(k)
  PROVE  /\ stack'[k] \in Seq(FrameType)
         /\ stack' = [stack EXCEPT ![k] = stack'[k]]
         /\ Len(stack'[k]) = Len(stack[k])
         /\ \A i \in 1..Len(stack[k]) :
              /\ stack'[k][i].tool = stack[k][i].tool
              /\ stack'[k][i].pin = stack[k][i].pin
              /\ stack'[k][i].next = stack[k][i].next
              /\ i < Len(stack[k]) => stack'[k][i] = stack[k][i]
         /\ LET ver == stack'[k][Len(stack[k])].ver
            IN  /\ ver \in Versions /\ ver # 0 /\ ver =< Len(store[Top(k).tool])
                /\ Top(k).pin # 0 => ver = Top(k).pin
<1>1. pc[k] = "resolve" /\ pc[k] \in Running
  BY DEF Resolve, Running
<1>2. /\ stack[k] \in Seq(FrameType) /\ Len(stack[k]) \in 1..Len(stack[k])
      /\ Top(k) = stack[k][Len(stack[k])] /\ Top(k) \in FrameType
  BY <1>1, FramesTyped DEF Top
<1>3. PICK ver \in Found(Top(k).tool, Top(k).pin) \ {0} :
        SetTop(k, [Top(k) EXCEPT !.ver = ver])
  BY DEF Resolve
<1>4. /\ ver \in Versions /\ ver # 0 /\ ver =< Len(store[Top(k).tool])
      /\ Top(k).pin # 0 => ver = Top(k).pin
  BY <1>2, <1>3, FoundExists DEF FrameType
<1> DEFINE frame  == [Top(k) EXCEPT !.ver = ver]
           frames == [stack[k] EXCEPT ![Len(stack[k])] = frame]
<1>5. /\ frame \in FrameType /\ frame.ver = ver /\ frame.tool = Top(k).tool
      /\ frame.pin = Top(k).pin /\ frame.next = Top(k).next
  BY <1>2, <1>4 DEF FrameType
<1>6. stack' = [stack EXCEPT ![k] = frames]
  BY <1>3 DEF SetTop
<1> HIDE DEF frame
<1>7. /\ frames \in Seq(FrameType) /\ Len(frames) = Len(stack[k])
      /\ \A i \in 1..Len(stack[k]) :
           frames[i] = IF i = Len(stack[k]) THEN frame ELSE stack[k][i]
  BY <1>2, <1>5, ExceptSeq
<1> HIDE DEF frames
<1>8. stack'[k] = frames
  BY <1>6 DEF TypeOK
<1>9. \A i \in 1..Len(stack[k]) :
        /\ frames[i].tool = stack[k][i].tool
        /\ frames[i].pin = stack[k][i].pin
        /\ frames[i].next = stack[k][i].next
        /\ i < Len(stack[k]) => frames[i] = stack[k][i]
  BY <1>2, <1>5, <1>7
<1>10. frames[Len(stack[k])] = frame
  BY <1>2, <1>7
<1> QED
  BY <1>4, <1>5, <1>6, <1>7, <1>8, <1>9, <1>10

LEMMA ResolveTypes ==
  ASSUME TypeOK, Resolution, NEW k \in Calls, Resolve(k)
  PROVE  TypeOK' /\ Resolution'
<1> DEFINE frames == stack'[k]
<1>1. pc[k] = "resolve" /\ pc[k] \in Running
  BY DEF Resolve, Running
<1>2. PICK n \in Nat \ {0} : n = Len(stack[k])
  BY <1>1, FramesTyped
<1>3. frames \in Seq(FrameType) /\ stack' = [stack EXCEPT ![k] = frames] /\ Len(frames) = n
  BY <1>2, ResolveFrames
<1>4. \A i \in 1..n : /\ frames[i].tool = stack[k][i].tool
                      /\ i < n => frames[i] = stack[k][i]
  BY <1>2, ResolveFrames
<1>5. frames[n].ver # 0 /\ frames[n].ver =< Len(store[stack[k][n].tool])
  BY <1>1, <1>2, ResolveFrames DEF Top
<1> HIDE DEF frames
<1>6. \A i \in 1..n : /\ i < n \/ i = n
                      /\ stack[k][i].ver =< Len(store[stack[k][i].tool])
                      /\ i < n => stack[k][i].ver # 0
  <2>1. \A i \in 1..n : i < n \/ i = n
    BY <1>2
  <2>2. \A i \in 1..n : stack[k][i].ver =< Len(store[stack[k][i].tool])
    BY <1>2 DEF TypeOK
  <2>3. \A i \in 1..n : i < n => stack[k][i].ver # 0
    BY <1>1, <1>2, Zenon DEF Resolution, Settled
  <2> QED
    BY <2>1, <2>2, <2>3
<1>7. \A i \in 1..Len(frames) : frames[i].ver =< Len(store[frames[i].tool])
  BY <1>3, <1>4, <1>5, <1>6
<1>8. \A i \in 1..Len(frames) : frames[i].ver # 0
  BY <1>3, <1>4, <1>5, <1>6
<1>9. frames # <<>>
  BY <1>2, <1>3, EmptySeq
<1>10. pc' = [pc EXCEPT ![k] = "gate"] /\ UNCHANGED <<asker, barred, tables, log, reply>>
  BY DEF Resolve, Continue
<1> QED
  BY <1>3, <1>7, <1>8, <1>9, <1>10, Quiet, CallTypes DEF Running

(* The frame on which runTool() recurses. *)
LEMMA DescendFrame ==
  ASSUME TypeOK, Resolution, NEW k \in Calls, Descend(k)
  PROVE  LET dep   == TopRow(k).uses[Top(k).next]
             frame == Frame(dep.tool, dep.pin)
         IN  /\ Top(k).next \in 1..Len(TopRow(k).uses)
             /\ frame \in FrameType
             /\ stack'[k] \in Seq(FrameType)
             /\ stack' = [stack EXCEPT ![k] = stack'[k]]
             /\ Len(stack'[k]) = Len(stack[k]) + 1
             /\ \A i \in 1..Len(stack[k]) : stack'[k][i] = stack[k][i]
             /\ stack'[k][Len(stack[k]) + 1] = frame
<1> DEFINE dep   == TopRow(k).uses[Top(k).next]
           frame == Frame(dep.tool, dep.pin)
<1>1. pc[k] = "body" /\ pc[k] \in Running
  BY DEF Descend, Running
<1>2. /\ stack[k] \in Seq(FrameType) /\ Len(stack[k]) \in 1..Len(stack[k])
      /\ Top(k) = stack[k][Len(stack[k])] /\ Top(k) \in FrameType
  BY <1>1, FramesTyped DEF Top
<1>3. Top(k).ver # 0
  BY <1>1, <1>2 DEF Resolution, Settled
<1>4. TopRow(k).uses \in Seq(Dep)
  BY <1>1, <1>3, TopRowTyped DEF Row
<1>5. Top(k).next \in Nat \ {0} /\ Top(k).next =< Len(TopRow(k).uses)
  BY <1>2 DEF Descend, Pending, FrameType
<1>6. Top(k).next \in 1..Len(TopRow(k).uses)
  BY <1>4, <1>5, LenProperties
<1>7. dep \in Dep
  BY <1>4, <1>6, ElementOfSeq
<1>8. frame \in FrameType
  BY <1>7 DEF Frame, FrameType, Dep
<1>9. stack' = [stack EXCEPT ![k] = Append(stack[k], frame)]
  BY Zenon DEF Descend
<1> HIDE DEF frame
<1>10. stack'[k] = Append(stack[k], frame)
  BY <1>9 DEF TypeOK
<1>11. /\ stack'[k] \in Seq(FrameType)
       /\ Len(stack'[k]) = Len(stack[k]) + 1
       /\ \A i \in 1..Len(stack[k]) : stack'[k][i] = stack[k][i]
       /\ stack'[k][Len(stack[k]) + 1] = frame
  BY <1>2, <1>8, <1>10
<1>12. stack' = [stack EXCEPT ![k] = stack'[k]]
  BY <1>9, <1>10, Zenon
<1> QED
  BY <1>6, <1>8, <1>11, <1>12, Zenon DEF frame

LEMMA DescendTypes ==
  ASSUME TypeOK, Resolution, NEW k \in Calls, Descend(k)
  PROVE  TypeOK' /\ Resolution'
<1> DEFINE dep    == TopRow(k).uses[Top(k).next]
           frame  == Frame(dep.tool, dep.pin)
           frames == stack'[k]
<1>1. pc[k] = "body" /\ pc[k] \in Running
  BY DEF Descend, Running
<1>2. Len(stack[k]) \in Nat \ {0}
  BY <1>1, FramesTyped
<1>3. /\ frame \in FrameType
      /\ frames \in Seq(FrameType)
      /\ stack' = [stack EXCEPT ![k] = frames]
      /\ Len(frames) = Len(stack[k]) + 1
      /\ \A i \in 1..Len(stack[k]) : frames[i] = stack[k][i]
      /\ frames[Len(stack[k]) + 1] = frame
  BY DescendFrame, Zenon
<1>4. frame.ver = 0
  BY DEF Frame
<1>5. pc' = [pc EXCEPT ![k] = "resolve"] /\ UNCHANGED <<asker, barred, tables, log, reply>>
  BY Zenon DEF Descend, Continue
<1> HIDE DEF frame, frames
<1>6. Len(store[frame.tool]) \in Nat
  BY <1>3, LenProperties DEF TypeOK, FrameType
<1>7. \A i \in 1..Len(frames) : i \in 1..Len(stack[k]) \/ i = Len(stack[k]) + 1
  BY <1>2, <1>3
<1>8. \A i \in 1..Len(frames) : frames[i].ver =< Len(store[frames[i].tool])
  <2>1. \A i \in 1..Len(stack[k]) : stack[k][i].ver =< Len(store[stack[k][i].tool])
    BY DEF TypeOK
  <2> QED
    BY <1>3, <1>4, <1>6, <1>7, <2>1
<1>9. \A i \in 1..Len(frames) : i < Len(frames) => frames[i].ver # 0
  BY <1>1, <1>2, <1>3, <1>7 DEF Resolution, Settled
<1>10. frames # <<>>
  BY <1>2, <1>3, EmptySeq
<1> QED
  BY <1>3, <1>5, <1>8, <1>9, <1>10, Quiet, CallTypes DEF Running

LEMMA ThrowTypes ==
  ASSUME TypeOK, Resolution, NEW k \in Calls, Throw(k)
  PROVE  TypeOK' /\ Resolution'
<1>1. pc[k] \in Running /\ Unwind(k, log[k]) /\ log[k] \in Seq(EventType)
  BY DEF Throw, TypeOK
<1>2. Ended(k) /\ UNCHANGED <<asker, barred, tables>>
  BY <1>1 DEF Unwind, Ended
<1> QED
  BY <1>1, <1>2, UnwindLogs, EndedTypes

LEMMA CrashTypes ==
  ASSUME TypeOK, Resolution, NEW k \in Calls, Crash(k)
  PROVE  TypeOK' /\ Resolution'
<1>1. /\ pc[k] \in Running /\ pc' = [pc EXCEPT ![k] = "dead"]
      /\ UNCHANGED <<asker, stack, log, reply, barred, tables>>
  BY DEF Crash
<1>2. stack[k] \in Seq(FrameType) /\ stack' = [stack EXCEPT ![k] = stack[k]]
  BY <1>1 DEF TypeOK
<1>3. \A i \in 1..Len(stack[k]) : stack[k][i].ver =< Len(store[stack[k][i].tool])
  BY DEF TypeOK
<1>4. "dead" \notin Running
  BY DEF Running
<1> QED
  BY <1>1, <1>2, <1>3, <1>4, Quiet, CallTypes

LEMMA TurnAwayTypes ==
  ASSUME TypeOK, Resolution, NEW k \in Calls, TurnAway(k)
  PROVE  TypeOK' /\ Resolution'
<1>1. pc' = [pc EXCEPT ![k] = "done"] /\ UNCHANGED <<asker, stack, log, barred, tables>>
  BY DEF TurnAway
<1>2. Replied(k)
  <2>1. {400, 401, 403} \cup {s \in {502} : "error" \in Faults} \subseteq Codes
    BY DEF Codes
  <2> QED
    BY <2>1, Zenon DEF TurnAway, Replied
<1>3. Logged(k)
  <2>1. log[k] \in Seq(EventType) /\ log' = [log EXCEPT ![k] = log[k]]
    BY <1>1 DEF TypeOK
  <2> QED
    BY <2>1, Zenon DEF Logged
<1>4. stack[k] \in Seq(FrameType) /\ stack' = [stack EXCEPT ![k] = stack[k]]
  BY <1>1 DEF TypeOK
<1>5. \A i \in 1..Len(stack[k]) : stack[k][i].ver =< Len(store[stack[k][i].tool])
  BY DEF TypeOK
<1>6. "done" \notin Running
  BY DEF Running
<1> QED
  BY <1>1, <1>2, <1>3, <1>4, <1>5, <1>6, CallTypes

(* Versions are only ever added: a row that was there stays where it was.  *)
LEMMA PublishAdds ==
  ASSUME TypeOK, NEW t \in Tools, Publish(t)
  PROVE  /\ store' \in [Tools -> Seq(Row)]
         /\ \A u \in Tools : /\ Len(store'[u]) =< MaxVersion
                             /\ Len(store[u]) =< Len(store'[u])
                             /\ \A v \in 1..Len(store[u]) : store'[u][v] = store[u][v]
<1>1. PICK row \in Packages[t] : store' = [store EXCEPT ![t] = Append(@, row)]
  BY DEF Publish
<1>2. row \in Row
  BY <1>1, PackageAssumption DEF ValidRow
<1>3. \A u \in Tools : store[u] \in Seq(Row) /\ Len(store[u]) \in Nat
  BY LenProperties DEF TypeOK
<1> DEFINE longer == Append(store[t], row)
<1>4. /\ longer \in Seq(Row) /\ Len(longer) = Len(store[t]) + 1
      /\ \A v \in 1..Len(store[t]) : longer[v] = store[t][v]
  BY <1>2, <1>3
<1>5. store' = [store EXCEPT ![t] = longer]
  BY <1>1
<1> HIDE DEF longer
<1>6. Len(longer) =< MaxVersion
  BY <1>3, <1>4, VersionAssumption DEF Publish
<1> QED
  BY <1>3, <1>4, <1>5, <1>6 DEF TypeOK

LEMMA PublishTypes ==
  ASSUME TypeOK, Resolution, NEW t \in Tools, Publish(t)
  PROVE  TypeOK' /\ Resolution'
<1>1. UNCHANGED <<approvals, replica, reviews, pc, asker, stack, log, reply, barred>>
  BY DEF Publish
<1>2. \A k \in Calls : \A i \in 1..Len(stack[k]) :
         stack[k][i].ver =< Len(store'[stack[k][i].tool])
  <2> TAKE k \in Calls
  <2> TAKE i \in 1..Len(stack[k])
  <2>1. stack[k] \in Seq(FrameType)
    BY DEF TypeOK
  <2>5. stack[k][i].ver =< Len(store[stack[k][i].tool])
    BY DEF TypeOK
  <2>2. stack[k][i] \in FrameType
    BY <2>1, ElementOfSeq
  <2>3. stack[k][i].tool \in Tools /\ stack[k][i].ver \in Nat
    BY <2>2, VersionAssumption DEF FrameType, Versions
  <2>4. Len(store[stack[k][i].tool]) \in Nat /\ Len(store'[stack[k][i].tool]) \in Nat
    BY <2>3, PublishAdds, LenProperties DEF TypeOK
  <2> QED
    BY <2>3, <2>4, <2>5, PublishAdds
<1>3. TypeOK'
  BY <1>1, <1>2, PublishAdds DEF TypeOK
<1> QED
  BY <1>1, <1>3 DEF Resolution, Settled

LEMMA ReviewTypes ==
  ASSUME TypeOK, Resolution, NEW t \in Tools, NEW v \in Versions, Review(t, v)
  PROVE  TypeOK' /\ Resolution'
<1>1. UNCHANGED <<store, replica, pc, asker, stack, log, reply>>
  BY DEF Review
<1>2. approvals' \in [Refs -> Verdicts \cup {"none"}]
  <2>1. PICK verdict \in Verdicts : approvals' = [approvals EXCEPT ![<<t, v>>] = verdict]
    BY DEF Review
  <2> QED
    BY <2>1 DEF TypeOK
<1>3. barred' \in [Calls -> SUBSET Refs]
  BY DEF Review, TypeOK
<1>4. reviews' \in 0..MaxReviews
  BY VersionAssumption DEF Review, TypeOK
<1>5. TypeOK'
  BY <1>1, <1>2, <1>3, <1>4 DEF TypeOK
<1> QED
  BY <1>1, <1>5 DEF Resolution, Settled

LEMMA ReplicateTypes ==
  ASSUME TypeOK, Resolution, NEW ref \in Refs, Replicate(ref)
  PROVE  TypeOK' /\ Resolution'
<1>1. UNCHANGED <<store, approvals, reviews, pc, asker, stack, log, reply, barred>>
  BY DEF Replicate
<1>2. replica' \in [Refs -> Verdicts \cup {"none"}]
  BY DEF Replicate, TypeOK
<1>3. TypeOK'
  BY <1>1, <1>2 DEF TypeOK
<1> QED
  BY <1>1, <1>3 DEF Resolution, Settled

(* A step of runTool() fails the running frame, returns from it, or goes   *)
(* on with it.                                                             *)
FailingStep(k) ==
  \E status \in Codes, version \in {0} \cup Versions : FailNaming(k, status, version)

LEMMA StepCases ==
  ASSUME TypeOK, NEW k \in Calls, Step(k)
  PROVE  /\ pc[k] \in Running
         /\ FailingStep(k) \/ Run(k) \/ Resolve(k) \/ Descend(k) \/ Gate(k)
<1>1. pc[k] \in Running
  <2>1. pc[k] \in {"resolve", "gate", "body", "failing"}
    BY Zenon DEF Step, RefuseChain, Resolve, ResolveNothing, NoCode, Gate, GateRefuses,
                 BadInput, Descend, RunFails, Run, Propagate
  <2> QED
    BY <2>1 DEF Running
<1>2. Top(k).pin \in {0} \cup Versions /\ Top(k).ver \in {0} \cup Versions
  BY <1>1, FramesTyped DEF FrameType
<1>3. /\ 400 \in Codes /\ 403 \in Codes /\ 404 \in Codes /\ 409 \in Codes
      /\ {422, 502} \subseteq Codes /\ reply[k] \in Codes
  BY DEF Codes, TypeOK
<1>4. CASE RefuseChain(k) \/ ResolveNothing(k) \/ NoCode(k)
  BY <1>1, <1>2, <1>3, <1>4, Zenon DEF RefuseChain, ResolveNothing, NoCode, FailingStep
<1>5. CASE GateRefuses(k) \/ BadInput(k) \/ RunFails(k) \/ Propagate(k)
  <2>1. PICK status \in Codes : Fail(k, status)
    <3>1. CASE GateRefuses(k)
      BY <1>3, <3>1, Zenon DEF GateRefuses
    <3>2. CASE BadInput(k)
      BY <1>3, <3>2, Zenon DEF BadInput
    <3>3. CASE RunFails(k)
      BY <1>3, <3>3 DEF RunFails
    <3>4. CASE Propagate(k)
      BY <1>3, <3>4, Zenon DEF Propagate
    <3> QED
      BY <1>5, <3>1, <3>2, <3>3, <3>4
  <2> QED
    BY <1>1, <1>2, <2>1, Zenon DEF Fail, FailingStep
<1> QED
  BY <1>1, <1>4, <1>5, Zenon DEF Step

LEMMA StepTypes ==
  ASSUME TypeOK, Resolution, NEW k \in Calls, Step(k)
  PROVE  TypeOK' /\ Resolution'
<1>1. CASE FailingStep(k)
  BY <1>1, StepCases, FailTypes, Zenon DEF FailingStep
<1>2. CASE Run(k)
  BY <1>2, RunShape, StepCases, EndedTypes, ReturnedTypes, Zenon
<1>3. CASE Resolve(k)
  BY <1>3, ResolveTypes
<1>4. CASE Descend(k)
  BY <1>4, DescendTypes
<1>5. CASE Gate(k)
  BY <1>5, SameFramesTypes DEF Gate, Continue, Running
<1> QED
  BY <1>1, <1>2, <1>3, <1>4, <1>5, StepCases

LEMMA InitTypes == Init => TypeOK /\ Resolution
<1> SUFFICES ASSUME Init PROVE TypeOK /\ Resolution
  OBVIOUS
<1>1. /\ store \in [Tools -> Seq(Row)]
      /\ \A t \in Tools : Len(store[t]) =< MaxVersion
  BY SeededAssumption DEF Init
<1>2. approvals \in [Refs -> Verdicts \cup {"none"}]
  BY DEF Init, Verdicts
<1>3. replica \in [Refs -> Verdicts \cup {"none"}]
  BY <1>2 DEF Init
<1>4. reviews \in 0..MaxReviews
  BY VersionAssumption DEF Init
<1>5. /\ stack \in [Calls -> Seq(FrameType)]
      /\ log \in [Calls -> Seq(EventType)]
      /\ \A k \in Calls : 1..Len(stack[k]) = {}
  BY DEF Init
<1>6. /\ pc \in [Calls -> {"idle", "done", "dead"} \cup Running]
      /\ \A k \in Calls : pc[k] \notin Running
  BY DEF Init, Running
<1>7. /\ asker \in [Calls -> Owners]
      /\ reply \in [Calls -> {0, 200, 400, 401, 403, 404, 409, 422, 500, 502}]
      /\ barred \in [Calls -> SUBSET Refs]
  BY DEF Init
<1>8. TypeOK
  BY <1>1, <1>2, <1>3, <1>4, <1>5, <1>6, <1>7 DEF TypeOK
<1>9. Resolution
  BY <1>6 DEF Resolution
<1> QED
  BY <1>8, <1>9

LEMMA NextTypes == TypeOK /\ Resolution /\ [Next]_vars => TypeOK' /\ Resolution'
<1> SUFFICES ASSUME TypeOK, Resolution, [Next]_vars PROVE TypeOK' /\ Resolution'
  OBVIOUS
<1>1. ASSUME NEW t \in Tools, Publish(t) PROVE TypeOK' /\ Resolution'
  BY <1>1, PublishTypes
<1>2. ASSUME NEW t \in Tools, NEW v \in Versions, Review(t, v) PROVE TypeOK' /\ Resolution'
  BY <1>2, ReviewTypes
<1>3. ASSUME NEW ref \in Refs, Replicate(ref) PROVE TypeOK' /\ Resolution'
  BY <1>3, ReplicateTypes
<1>4. ASSUME NEW k \in Calls, NEW t \in Tools, NEW pin \in {0} \cup Versions, Begin(k, t, pin)
      PROVE  TypeOK' /\ Resolution'
  BY <1>4, BeginTypes
<1>5. ASSUME NEW k \in Calls, TurnAway(k) PROVE TypeOK' /\ Resolution'
  BY <1>5, TurnAwayTypes
<1>6. ASSUME NEW k \in Calls, Step(k) PROVE TypeOK' /\ Resolution'
  BY <1>6, StepTypes
<1>7. ASSUME NEW k \in Calls, Throw(k) PROVE TypeOK' /\ Resolution'
  BY <1>7, ThrowTypes
<1>8. ASSUME NEW k \in Calls, Crash(k) PROVE TypeOK' /\ Resolution'
  BY <1>8, CrashTypes
<1>9. CASE UNCHANGED vars
  BY <1>9 DEF vars, TypeOK, Resolution, Settled
<1> QED
  BY <1>1, <1>2, <1>3, <1>4, <1>5, <1>6, <1>7, <1>8, <1>9, Zenon DEF Next

(* The range of every variable, for every value of the constants; above    *)
(* all, that a frame which has been resolved names a row of the table.     *)
THEOREM ExecutionTypes == Spec => [](TypeOK /\ Resolution)
BY InitTypes, NextTypes, PTL DEF Spec

-----------------------------------------------------------------------------
(* The actions of a call. *)
Moves(k) ==
  \/ \E t \in Tools, pin \in {0} \cup Versions : Begin(k, t, pin)
  \/ TurnAway(k) \/ Step(k) \/ Throw(k) \/ Crash(k)

(* A call touches neither the tables nor any other call. *)
LEMMA MovesAlone ==
  ASSUME TypeOK, NEW k \in Calls, Moves(k)
  PROVE  /\ UNCHANGED <<asker, tables>>
         /\ \A c \in Calls \ {k} : /\ pc'[c] = pc[c]
                                  /\ stack'[c] = stack[c]
                                  /\ log'[c] = log[c]
                                  /\ barred'[c] = barred[c]
<1> DEFINE Alone ==
      /\ UNCHANGED <<asker, tables>>
      /\ \A c \in Calls \ {k} : /\ pc'[c] = pc[c]
                               /\ stack'[c] = stack[c]
                               /\ log'[c] = log[c]
                               /\ barred'[c] = barred[c]
<1>1. CASE \E t \in Tools, pin \in {0} \cup Versions : Begin(k, t, pin)
  BY <1>1 DEF Begin, TypeOK
<1>2. CASE TurnAway(k) \/ Crash(k)
  BY <1>2 DEF TurnAway, Crash, TypeOK
<1>3. ASSUME NEW written, Unwind(k, written) PROVE Alone
  BY <1>3 DEF Unwind, TypeOK
<1>4. CASE Throw(k)
  BY <1>3, <1>4, Zenon DEF Throw
<1>5. CASE Step(k)
  <2>1. CASE FailingStep(k)
    <3>1. PICK status, version : FailNaming(k, status, version)
      BY <2>1 DEF FailingStep
    <3>2. \/ \E written : Unwind(k, written)
          \/ \E written, label, frames :
                /\ log' = [log EXCEPT ![k] = written]
                /\ stack' = [stack EXCEPT ![k] = frames]
                /\ pc' = [pc EXCEPT ![k] = label]
                /\ UNCHANGED <<asker, barred, tables>>
      BY <3>1, Zenon DEF FailNaming
    <3> QED
      BY <1>3, <3>2 DEF TypeOK
  <2>2. CASE Run(k)
    <3>1. \/ \E written : Unwind(k, written)
          \/ \E written, frames :
                /\ log' = [log EXCEPT ![k] = written]
                /\ stack' = [stack EXCEPT ![k] = frames]
                /\ pc' = [pc EXCEPT ![k] = "done"] \/ UNCHANGED pc
                /\ UNCHANGED <<asker, barred, tables>>
      BY <2>2, Zenon DEF Run
    <3> QED
      BY <1>3, <3>1 DEF TypeOK
  <2>3. CASE Resolve(k)
    BY <2>3 DEF Resolve, SetTop, Continue, TypeOK
  <2>4. CASE Descend(k)
    BY <2>4 DEF Descend, Continue, TypeOK
  <2>5. CASE Gate(k)
    BY <2>5 DEF Gate, Continue, TypeOK
  <2> QED
    BY <1>5, <2>1, <2>2, <2>3, <2>4, <2>5, StepCases
<1> QED
  BY <1>1, <1>2, <1>4, <1>5, Zenon DEF Moves

(* What becomes of the frames of a call that moves and goes on. *)
Kept(k) ==
  /\ Len(stack'[k]) < Len(stack[k])
  /\ \A i \in 1..Len(stack'[k]) :
       /\ stack'[k][i].tool = stack[k][i].tool
       /\ stack'[k][i].pin = stack[k][i].pin
       /\ stack'[k][i].ver = stack[k][i].ver
       /\ \/ stack'[k][i].next = stack[k][i].next
          \/ /\ i = Len(stack'[k]) /\ Run(k)
             /\ stack'[k][i].next = stack[k][i].next + 1

LEMMA MovesFrames ==
  ASSUME TypeOK, Resolution, NEW k \in Calls, Moves(k), pc'[k] \in Running
  PROVE  \/ /\ Len(stack'[k]) = 1 /\ pc'[k] = "resolve" /\ stack'[k][1].next = 1
            /\ barred'[k] = Refs \ Approved(approvals)
         \/ /\ pc[k] \in Running /\ barred'[k] = barred[k]
            /\ \/ Kept(k) /\ Len(stack'[k]) = Len(stack[k]) - 1 /\ Len(stack'[k]) > 0
                  /\ pc'[k] \in {"body", "failing"}
               \/ Resolve(k) \/ Descend(k) \/ Gate(k)
<1>1. CASE \E t \in Tools, pin \in {0} \cup Versions : Begin(k, t, pin)
  <2>1. PICK t, pin : Begin(k, t, pin)
    BY <1>1
  <2>2. /\ stack'[k] = <<Frame(t, pin)>> /\ pc'[k] = "resolve"
        /\ barred'[k] = Refs \ Approved(approvals)
    BY <2>1 DEF Begin, TypeOK
  <2>3. Len(<<Frame(t, pin)>>) = 1 /\ <<Frame(t, pin)>>[1].next = 1
    BY DEF Frame
  <2> QED
    BY <2>2, <2>3
<1>2. CASE TurnAway(k) \/ Crash(k) \/ Throw(k)
  BY <1>2 DEF TurnAway, Crash, Throw, Unwind, TypeOK, Running
<1>3. CASE Step(k)
  <2>1. pc[k] \in Running
    BY <1>3, StepCases
  <2>2. ASSUME Ended(k) PROVE FALSE
    BY <2>2 DEF Ended, TypeOK, Running
  <2>3. ASSUME Popped(k), UNCHANGED barred
        PROVE  /\ Kept(k) /\ Len(stack'[k]) = Len(stack[k]) - 1 /\ Len(stack'[k]) > 0
               /\ pc'[k] \in {"body", "failing"} /\ barred'[k] = barred[k]
    <3>1. pc'[k] = "failing"
      BY <2>3 DEF Popped, TypeOK
    <3> QED
      BY <2>1, <2>3, <3>1, PoppedFrames, FramesTyped DEF Kept
  <2>4. ASSUME Returned(k), Run(k), UNCHANGED barred
        PROVE  /\ Kept(k) /\ Len(stack'[k]) = Len(stack[k]) - 1 /\ Len(stack'[k]) > 0
               /\ pc'[k] \in {"body", "failing"} /\ barred'[k] = barred[k]
    <3>1. pc'[k] = "body"
      BY <2>4 DEF Returned, Run
    <3>2. /\ Len(stack'[k]) = Len(stack[k]) - 1 /\ Len(stack'[k]) > 0
          /\ \A i \in 1..Len(stack'[k]) :
               stack'[k][i] = IF i = Len(stack'[k])
                              THEN [stack[k][i] EXCEPT !.next = @ + 1]
                              ELSE stack[k][i]
      BY <2>1, <2>4, ReturnedFrames
    <3>3. /\ Len(stack[k]) \in Nat
          /\ \A i \in 1..Len(stack[k]) : stack[k][i] \in FrameType
      BY <2>1, FramesTyped
    <3>4. \A i \in 1..Len(stack'[k]) : stack[k][i] \in FrameType
      BY <3>2, <3>3
    <3>5. \A f \in FrameType : LET g == [f EXCEPT !.next = @ + 1]
                              IN  /\ g.tool = f.tool /\ g.pin = f.pin /\ g.ver = f.ver
                                  /\ g.next = f.next + 1
      BY DEF FrameType
    <3>6. Kept(k)
      <4>1. Len(stack'[k]) < Len(stack[k])
        BY <3>2, <3>3
      <4>2. \A i \in 1..Len(stack'[k]) :
              /\ stack'[k][i].tool = stack[k][i].tool
              /\ stack'[k][i].pin = stack[k][i].pin
              /\ stack'[k][i].ver = stack[k][i].ver
        BY <3>2, <3>4, <3>5
      <4>3. \A i \in 1..Len(stack'[k]) :
              \/ stack'[k][i].next = stack[k][i].next
              \/ /\ i = Len(stack'[k]) /\ Run(k)
                 /\ stack'[k][i].next = stack[k][i].next + 1
        BY <2>4, <3>2, <3>4, <3>5
      <4> QED
        BY <4>1, <4>2, <4>3 DEF Kept
    <3> QED
      BY <2>4, <3>1, <3>2, <3>6
  <2>5. CASE FailingStep(k)
    <3>1. UNCHANGED <<asker, barred, tables>> /\ (Ended(k) \/ Popped(k))
      BY <2>1, <2>5, FailShape, Zenon DEF FailingStep
    <3> QED
      BY <2>1, <2>2, <2>3, <3>1
  <2>6. CASE Run(k)
    <3>1. UNCHANGED <<asker, barred, tables>> /\ (Ended(k) \/ Returned(k))
      BY <2>6, RunShape
    <3> QED
      BY <2>1, <2>2, <2>4, <2>6, <3>1
  <2>7. CASE Resolve(k) \/ Descend(k) \/ Gate(k)
    BY <2>1, <2>7 DEF Resolve, Descend, Gate, Continue
  <2> QED
    BY <1>3, <2>5, <2>6, <2>7, StepCases
<1> QED
  BY <1>1, <1>2, <1>3, Zenon DEF Moves

-----------------------------------------------------------------------------
(* The chain: above the running frame no tool occurs twice, and no frame   *)
(* that went past checkChain() is deeper than it allows.                   *)
SimpleChain ==
  \A k \in Calls : pc[k] \in Running =>
    \A i \in 1..Len(stack[k]) : Settled(k, i) =>
      /\ i =< MaxDepth
      /\ \A j \in 1..Len(stack[k]) :
           j < i => stack[k][j].tool # stack[k][i].tool

LEMMA SimpleChainStep ==
  ASSUME TypeOK, Resolution, SimpleChain, [Next]_vars
  PROVE  SimpleChain'
<1>1. CASE UNCHANGED <<pc, stack>>
  BY <1>1 DEF SimpleChain, Settled
<1>2. ASSUME NEW k \in Calls, Moves(k) PROVE SimpleChain'
  <2> SUFFICES ASSUME NEW c \in Calls, pc'[c] \in Running,
                      NEW i \in 1..Len(stack'[c]), i < Len(stack'[c]) \/ pc'[c] # "resolve"
               PROVE  /\ i =< MaxDepth
                      /\ \A j \in 1..Len(stack'[c]) :
                           j < i => stack'[c][j].tool # stack'[c][i].tool
    BY DEF SimpleChain, Settled
  <2>1. CASE c # k
    BY <1>2, <2>1, MovesAlone DEF SimpleChain, Settled
  <2>2. CASE c = k /\ Len(stack'[c]) = 1 /\ pc'[c] = "resolve"
    BY <2>2
  <2>3. CASE c = k /\ pc[c] \in Running /\ Kept(c)
    <3>1. Len(stack[c]) \in Nat /\ Len(stack'[c]) < Len(stack[c])
      BY <2>3, FramesTyped DEF Kept
    <3>2. i \in 1..Len(stack[c]) /\ i < Len(stack[c])
      BY <3>1
    <3>3. \A j \in 1..Len(stack'[c]) : j \in 1..Len(stack[c])
      BY <3>1
    <3> QED
      BY <2>3, <3>2, <3>3 DEF SimpleChain, Settled, Kept
  <2>4. CASE c = k /\ Resolve(c)
    <3>1. pc[c] = "resolve" /\ pc[c] \in Running
      BY <2>4 DEF Resolve, Running
    <3>2. /\ Len(stack[c]) \in Nat \ {0} /\ Depth(c) = Len(stack[c]) - 1
          /\ Top(c) = stack[c][Len(stack[c])]
      BY <3>1, FramesTyped DEF Top
    <3>3. /\ Len(stack'[c]) = Len(stack[c])
          /\ \A j \in 1..Len(stack[c]) : stack'[c][j].tool = stack[c][j].tool
      BY <2>4, ResolveFrames
    <3>4. CASE i < Len(stack[c])
      BY <3>1, <3>3, <3>4 DEF SimpleChain, Settled
    <3>5. CASE i = Len(stack[c])
      <4>1. Depth(c) < MaxDepth /\ Top(c).tool \notin Chain(c)
        BY <2>4 DEF Resolve, ChainAllows
      <4>2. \A j \in 1..Len(stack[c]) : j < i => j \in 1..Depth(c)
        BY <3>2, <3>5
      <4>3. \A j \in 1..Len(stack[c]) : j < i => stack[c][j].tool # Top(c).tool
        BY <4>1, <4>2 DEF Chain
      <4>4. i =< MaxDepth
        BY <3>2, <3>5, <4>1, DepthAssumption
      <4> QED
        BY <3>2, <3>3, <3>5, <4>3, <4>4
    <3> QED
      BY <3>2, <3>3, <3>4, <3>5
  <2>5. CASE c = k /\ Descend(c)
    <3>1. pc[c] = "body" /\ pc[c] \in Running /\ pc'[c] = "resolve"
      BY <2>5 DEF Descend, Continue, Running, TypeOK
    <3>2. Len(stack[c]) \in Nat
      BY <3>1, FramesTyped
    <3>3. /\ Len(stack'[c]) = Len(stack[c]) + 1
          /\ \A j \in 1..Len(stack[c]) : stack'[c][j] = stack[c][j]
      BY <2>5, DescendFrame, Zenon
    <3>4. i \in 1..Len(stack[c])
      BY <3>1, <3>2, <3>3
    <3>5. \A j \in 1..Len(stack'[c]) : j < i => j \in 1..Len(stack[c])
      BY <3>2, <3>3, <3>4
    <3> QED
      BY <3>1, <3>3, <3>4, <3>5 DEF SimpleChain, Settled
  <2>6. CASE c = k /\ Gate(c)
    <3>1. pc[c] = "gate" /\ pc[c] \in Running /\ UNCHANGED stack
      BY <2>6 DEF Gate, Running
    <3> QED
      BY <3>1 DEF SimpleChain, Settled
  <2> QED
    BY <1>2, <2>1, <2>2, <2>3, <2>4, <2>5, <2>6, MovesFrames
<1> QED
  BY <1>1, <1>2, Zenon DEF Next, Moves, Publish, Review, Replicate, vars

(* Whatever is published while a call runs, the chain of its tools is      *)
(* simple and as short as MaxDepth says: no cycle of declarations makes    *)
(* runTool() recurse for ever.                                             *)
THEOREM ChainsAreSimple == Spec => []ChainIsSimple
<1>1. Init => SimpleChain
  BY DEF Init, SimpleChain, Running
<1>2. TypeOK /\ Resolution /\ SimpleChain => ChainIsSimple
  <2> SUFFICES ASSUME TypeOK, SimpleChain,
                      NEW k \in Calls, pc[k] \in {"gate", "body", "failing"}
               PROVE  /\ Len(stack[k]) =< MaxDepth
                      /\ \A i, j \in 1..Len(stack[k]) :
                           stack[k][i].tool = stack[k][j].tool => i = j
    BY DEF ChainIsSimple
  <2>1. pc[k] \in Running /\ pc[k] # "resolve"
    BY DEF Running
  <2>2. Len(stack[k]) \in 1..Len(stack[k])
    BY <2>1, FramesTyped
  <2>3. \A i, j \in 1..Len(stack[k]) : i = j \/ i < j \/ j < i
    OBVIOUS
  <2> QED
    BY <2>1, <2>2, <2>3 DEF SimpleChain, Settled
<1> QED
  BY <1>1, <1>2, SimpleChainStep, ExecutionTypes, PTL DEF Spec

-----------------------------------------------------------------------------
(* The log only grows, and only a run adds a success to it. *)
GrowsBy(k, event) ==
  /\ Len(log'[k]) >= Len(log[k])
  /\ \A i \in 1..Len(log[k]) : log'[k][i] = log[k][i]
  /\ \A i \in Len(log[k]) + 1..Len(log'[k]) :
       \/ log'[k][i].outcome = "error"
       \/ i = Len(log[k]) + 1 /\ log'[k][i] = event

LEMMA AppendGrows ==
  ASSUME NEW S, NEW s \in Seq(S), NEW e \in S
  PROVE  /\ Append(s, e) \in Seq(S)
         /\ Len(Append(s, e)) = Len(s) + 1
         /\ \A i \in 1..Len(s) : Append(s, e)[i] = s[i]
         /\ Append(s, e)[Len(s) + 1] = e
OBVIOUS

LEMMA UnwindGrows ==
  ASSUME TypeOK, NEW k \in Calls, pc[k] \in Running,
         NEW event \in EventType, NEW written \in Seq(EventType), Unwind(k, written),
         written = log[k] \/ written = Append(log[k], event)
  PROVE  GrowsBy(k, event)
<1> DEFINE last == [tool |-> stack[k][1].tool, version |-> stack[k][1].pin, outcome |-> "error",
                    self |-> FALSE, via |-> {}, depth |-> 0]
<1>1. stack[k][1] \in FrameType
  BY FramesTyped
<1>2. last \in EventType /\ last.outcome = "error"
  BY <1>1 DEF FrameType, EventType
<1>3. log'[k] = Append(written, last)
  BY DEF Unwind, TypeOK
<1> HIDE DEF last
<1>4. PICK l : l = log[k] /\ l \in Seq(EventType)
  BY DEF TypeOK
<1>5. PICK w : w = log'[k]
  OBVIOUS
<1>6. PICK n \in Nat : n = Len(l)
  BY <1>4
<1>7. PICK m \in Nat : m = Len(written)
  BY LenProperties
<1>8. /\ Len(w) = m + 1 /\ w[m + 1] = last
      /\ \A i \in 1..m : w[i] = written[i]
  BY <1>2, <1>3, <1>5, <1>7, AppendGrows
<1>9. \/ m = n /\ written = l
      \/ m = n + 1 /\ written[n + 1] = event /\ \A i \in 1..n : written[i] = l[i]
  BY <1>4, <1>6, <1>7, AppendGrows
<1>10. /\ Len(w) >= n
       /\ \A i \in 1..n : w[i] = l[i]
       /\ \A i \in n + 1..Len(w) : w[i].outcome = "error" \/ (i = n + 1 /\ w[i] = event)
  <2>1. CASE m = n /\ written = l
    BY <1>2, <1>8, <2>1
  <2>2. CASE m = n + 1 /\ written[n + 1] = event /\ \A i \in 1..n : written[i] = l[i]
    BY <1>2, <1>8, <2>2
  <2> QED
    BY <1>9, <2>1, <2>2
<1> QED
  BY <1>4, <1>5, <1>6, <1>10 DEF GrowsBy

LEMMA AppendsGrow ==
  ASSUME TypeOK, NEW k \in Calls, NEW event \in EventType,
         log' = [log EXCEPT ![k] = Append(log[k], event)]
  PROVE  GrowsBy(k, event)
<1>1. PICK l : l = log[k] /\ l \in Seq(EventType)
  BY DEF TypeOK
<1>2. log'[k] = Append(l, event)
  BY <1>1 DEF TypeOK
<1>3. PICK n \in Nat : n = Len(l)
  BY <1>1
<1>4. PICK w : w = log'[k]
  OBVIOUS
<1>5. Len(w) = n + 1 /\ w[n + 1] = event /\ \A i \in 1..n : w[i] = l[i]
  BY <1>1, <1>2, <1>3, <1>4, AppendGrows
<1>6. \A i \in n + 1..Len(w) : i = n + 1
  BY <1>5
<1> QED
  BY <1>1, <1>3, <1>4, <1>5, <1>6 DEF GrowsBy

LEMMA MovesLog ==
  ASSUME TypeOK, NEW k \in Calls, Moves(k)
  PROVE  \E event :
           /\ GrowsBy(k, event)
           /\ \/ event.outcome = "error"
              \/ Run(k) /\ event = Event(k, "success", Top(k).ver)
<1> DEFINE Known(event) == \/ event.outcome = "error"
                           \/ Run(k) /\ event = Event(k, "success", Top(k).ver)
<1> SUFFICES \E event : GrowsBy(k, event) /\ Known(event)
  OBVIOUS
<1>1. ASSUME UNCHANGED log PROVE \E event : GrowsBy(k, event) /\ Known(event)
  <2>1. Len(log[k]) \in Nat
    BY LenProperties DEF TypeOK
  <2>2. GrowsBy(k, [outcome |-> "error"])
    BY <1>1, <2>1 DEF GrowsBy
  <2> QED
    BY <2>2
<1>2. CASE Throw(k)
  <2>1. pc[k] \in Running /\ Unwind(k, log[k]) /\ log[k] \in Seq(EventType)
    BY <1>2 DEF Throw, TypeOK
  <2>2. Event(k, "error", 0) \in EventType
    BY <2>1, EventTyped
  <2>3. GrowsBy(k, Event(k, "error", 0))
    BY <2>1, <2>2, UnwindGrows
  <2> QED
    BY <2>3 DEF Event
<1>3. CASE Step(k)
  <2>1. pc[k] \in Running
    BY <1>3, StepCases
  <2>2. CASE FailingStep(k)
    <3>1. PICK status \in Codes, version \in {0} \cup Versions : FailNaming(k, status, version)
      BY <2>2 DEF FailingStep
    <3>2. PICK event : event = Event(k, "error", version)
      OBVIOUS
    <3>3. event \in EventType /\ Append(log[k], event) \in Seq(EventType)
      BY <2>1, <3>2, EventTyped
    <3>4. Unwind(k, Append(log[k], event)) \/ log' = [log EXCEPT ![k] = Append(log[k], event)]
      BY <3>1, <3>2, Zenon DEF FailNaming
    <3>5. GrowsBy(k, event)
      BY <2>1, <3>3, <3>4, UnwindGrows, AppendsGrow
    <3> QED
      BY <3>2, <3>5 DEF Event
  <2>3. CASE Run(k)
    <3>1. PICK event : event = Event(k, "success", Top(k).ver)
      OBVIOUS
    <3>2. Top(k).ver \in {0} \cup Versions
      BY <2>1, FramesTyped DEF FrameType
    <3>3. event \in EventType /\ Append(log[k], event) \in Seq(EventType)
      BY <2>1, <3>1, <3>2, EventTyped
    <3>4. Unwind(k, Append(log[k], event)) \/ log' = [log EXCEPT ![k] = Append(log[k], event)]
      BY <2>3, <3>1, Zenon DEF Run
    <3>5. GrowsBy(k, event)
      BY <2>1, <3>3, <3>4, UnwindGrows, AppendsGrow
    <3> QED
      BY <2>3, <3>1, <3>5
  <2>4. CASE Resolve(k) \/ Descend(k) \/ Gate(k)
    BY <1>1, <2>4 DEF Resolve, Descend, Gate, Continue
  <2> QED
    BY <1>3, <2>2, <2>3, <2>4, StepCases
<1>4. CASE TurnAway(k) \/ Crash(k) \/ \E t \in Tools, pin \in {0} \cup Versions : Begin(k, t, pin)
  BY <1>1, <1>4, Zenon DEF TurnAway, Crash, Begin
<1> QED
  BY <1>2, <1>3, <1>4 DEF Moves

-----------------------------------------------------------------------------
(* The gate: a version that a reviewer has decided about, and that has     *)
(* code, stays one.                                                        *)
Vetted(t, v) ==
  /\ v \in 1..Len(store[t])
  /\ store[t][v].code
  /\ approvals[<<t, v>>] # "none"

LEMMA VettedForGood ==
  ASSUME TypeOK, [Next]_vars, NEW t \in Tools, NEW v \in Versions, Vetted(t, v)
  PROVE  Vetted(t, v)'
<1>1. ASSUME NEW u \in Tools, Publish(u) PROVE Vetted(t, v)'
  <2>1. Len(store[t]) \in Nat /\ Len(store'[t]) \in Nat /\ Len(store[t]) =< Len(store'[t])
    BY <1>1, PublishAdds, LenProperties DEF TypeOK
  <2>2. store'[t][v] = store[t][v] /\ UNCHANGED approvals
    BY <1>1, PublishAdds DEF Publish, Vetted
  <2>3. v \in 1..Len(store'[t])
    BY <2>1 DEF Vetted
  <2> QED
    BY <2>2, <2>3 DEF Vetted
<1>2. ASSUME NEW u \in Tools, NEW w \in Versions, Review(u, w) PROVE Vetted(t, v)'
  <2>1. PICK verdict \in Verdicts : approvals' = [approvals EXCEPT ![<<u, w>>] = verdict]
    BY <1>2 DEF Review
  <2>2. <<t, v>> \in Refs /\ approvals \in [Refs -> Verdicts \cup {"none"}]
    BY DEF Refs, TypeOK
  <2>3. approvals'[<<t, v>>] # "none"
    BY <2>1, <2>2 DEF Verdicts, Vetted
  <2> QED
    BY <1>2, <2>3 DEF Review, Vetted
<1>3. ASSUME NEW ref \in Refs, Replicate(ref) PROVE Vetted(t, v)'
  BY <1>3 DEF Replicate, Vetted
<1>4. ASSUME NEW k \in Calls, Moves(k) PROVE Vetted(t, v)'
  BY <1>4, MovesAlone DEF tables, Vetted
<1>5. CASE UNCHANGED vars
  BY <1>5 DEF vars, Vetted
<1> QED
  BY <1>1, <1>2, <1>3, <1>4, <1>5, Zenon DEF Next, Moves

(* A replica never shows a decision that was not taken. *)
ReplicaFollows == \A ref \in Refs : replica[ref] # "none" => approvals[ref] # "none"

VettedFrames ==
  \A k \in Calls : pc[k] \in Running =>
    \A i \in 1..Len(stack[k]) :
      PastGate(k, i) => Vetted(stack[k][i].tool, stack[k][i].ver)

VettedLog ==
  \A k \in Calls : \A i \in Successes(k) : Vetted(log[k][i].tool, log[k][i].version)

LEMMA ReplicaFollowsStep ==
  ASSUME TypeOK, ReplicaFollows, [Next]_vars
  PROVE  ReplicaFollows'
<1>1. ASSUME NEW t \in Tools, NEW v \in Versions, Review(t, v) PROVE ReplicaFollows'
  <2>1. PICK verdict \in Verdicts : approvals' = [approvals EXCEPT ![<<t, v>>] = verdict]
    BY <1>1 DEF Review
  <2> QED
    BY <1>1, <2>1 DEF Review, ReplicaFollows, Verdicts, TypeOK
<1>2. ASSUME NEW ref \in Refs, Replicate(ref) PROVE ReplicaFollows'
  BY <1>2 DEF Replicate, ReplicaFollows, TypeOK
<1>3. CASE UNCHANGED <<approvals, replica>>
  BY <1>3 DEF ReplicaFollows
<1>4. ASSUME NEW k \in Calls, Moves(k) PROVE UNCHANGED <<approvals, replica>>
  BY <1>4, MovesAlone DEF tables
<1> QED
  BY <1>1, <1>2, <1>3, <1>4, Zenon DEF Next, Moves, Publish, vars

LEMMA RefTyped ==
  ASSUME TypeOK, NEW k \in Calls, pc[k] \in Running, NEW i \in 1..Len(stack[k]),
         Vetted(stack[k][i].tool, stack[k][i].ver)
  PROVE  stack[k][i].tool \in Tools /\ stack[k][i].ver \in Versions
<1>1. stack[k][i] \in FrameType
  BY FramesTyped
<1>2. stack[k][i].ver \in {0} \cup Versions /\ stack[k][i].tool \in Tools
  BY <1>1 DEF FrameType
<1>3. stack[k][i].ver # 0
  BY DEF Vetted
<1> QED
  BY <1>2, <1>3

(* Passing the gate takes a decision about a version with code. *)
LEMMA GateVets ==
  ASSUME TypeOK, Resolution, ReplicaFollows, NEW k \in Calls, Gate(k)
  PROVE  Vetted(Top(k).tool, Top(k).ver)
<1>1. pc[k] \in Running /\ pc[k] = "gate"
  BY DEF Gate, Running
<1>2. /\ Len(stack[k]) \in 1..Len(stack[k]) /\ Top(k) = stack[k][Len(stack[k])]
      /\ Top(k) \in FrameType
  BY <1>1, FramesTyped DEF Top
<1>3. Top(k).ver # 0
  BY <1>1, <1>2 DEF Resolution, Settled
<1>4. Top(k).ver \in 1..Len(store[Top(k).tool])
  BY <1>1, <1>3, TopRowTyped
<1>5. store[Top(k).tool][Top(k).ver].code
  BY DEF Gate, TopRow
<1>6. PICK ref \in Refs : ref = <<Top(k).tool, Top(k).ver>>
  BY <1>2, <1>3 DEF FrameType, Refs
<1>7. "approved" \in Shown(ref)
  BY <1>6 DEF Gate
<1>8. approvals[ref] = "approved" \/ replica[ref] = "approved"
  BY <1>7 DEF Shown
<1>9. approvals[ref] # "none"
  BY <1>8 DEF ReplicaFollows
<1> QED
  BY <1>4, <1>5, <1>6, <1>9 DEF Vetted

LEMMA VettedFramesStep ==
  ASSUME TypeOK, Resolution, ReplicaFollows, VettedFrames, [Next]_vars
  PROVE  VettedFrames'
<1>1. ASSUME NEW k \in Calls, pc[k] \in Running, NEW i \in 1..Len(stack[k]),
             NEW t, NEW v, t = stack[k][i].tool, v = stack[k][i].ver, Vetted(t, v)
      PROVE  Vetted(t, v)'
  BY <1>1, RefTyped, VettedForGood
<1> SUFFICES ASSUME NEW c \in Calls, pc'[c] \in Running,
                    NEW i \in 1..Len(stack'[c]),
                    i < Len(stack'[c]) \/ pc'[c] \in {"body", "failing"},
                    NEW t, NEW v, t = stack'[c][i].tool, v = stack'[c][i].ver
             PROVE  Vetted(t, v)'
  BY Zenon DEF VettedFrames, PastGate
<1>2. CASE pc'[c] = pc[c] /\ stack'[c] = stack[c]
  <2>1. Vetted(t, v)
    BY <1>2 DEF VettedFrames, PastGate
  <2> QED
    BY <1>1, <1>2, <2>1
<1>3. ASSUME NEW k \in Calls, Moves(k), c # k PROVE pc'[c] = pc[c] /\ stack'[c] = stack[c]
  BY <1>3, MovesAlone
<1>4. CASE Moves(c)
  <2>1. CASE Len(stack'[c]) = 1 /\ pc'[c] = "resolve"
    BY <2>1
  <2>2. CASE pc[c] \in Running /\ Kept(c)
    <3>1. Len(stack[c]) \in Nat /\ Len(stack'[c]) < Len(stack[c])
      BY <2>2, FramesTyped DEF Kept
    <3>2. i \in 1..Len(stack[c]) /\ i < Len(stack[c])
      BY <3>1
    <3>3. t = stack[c][i].tool /\ v = stack[c][i].ver
      BY <2>2 DEF Kept
    <3>4. Vetted(t, v)
      BY <2>2, <3>2, <3>3 DEF VettedFrames, PastGate
    <3> QED
      BY <1>1, <2>2, <3>2, <3>3, <3>4
  <2>3. CASE Resolve(c)
    <3>1. pc[c] \in Running /\ pc'[c] = "gate"
      BY <2>3 DEF Resolve, Continue, Running, TypeOK
    <3>2. Len(stack'[c]) = Len(stack[c])
      BY <2>3, ResolveFrames
    <3>3. i \in 1..Len(stack[c]) /\ i < Len(stack[c])
      BY <3>1, <3>2
    <3>4. stack'[c][i] = stack[c][i]
      BY <2>3, <3>3, ResolveFrames
    <3>5. Vetted(t, v)
      BY <3>1, <3>3, <3>4 DEF VettedFrames, PastGate
    <3> QED
      BY <1>1, <3>1, <3>3, <3>4, <3>5
  <2>4. CASE Descend(c)
    <3>1. pc[c] = "body" /\ pc[c] \in Running /\ pc'[c] = "resolve"
      BY <2>4 DEF Descend, Continue, Running, TypeOK
    <3>2. Len(stack[c]) \in Nat
      BY <3>1, FramesTyped
    <3>3. /\ Len(stack'[c]) = Len(stack[c]) + 1
          /\ \A j \in 1..Len(stack[c]) : stack'[c][j] = stack[c][j]
      BY <2>4, DescendFrame, Zenon
    <3>4. i \in 1..Len(stack[c])
      BY <3>1, <3>2, <3>3
    <3>5. t = stack[c][i].tool /\ v = stack[c][i].ver
      BY <3>3, <3>4
    <3>6. Vetted(t, v)
      BY <3>1, <3>4, <3>5 DEF VettedFrames, PastGate
    <3> QED
      BY <1>1, <3>1, <3>4, <3>5, <3>6
  <2>5. CASE Gate(c)
    <3>1. pc[c] = "gate" /\ pc[c] \in Running /\ UNCHANGED stack
      BY <2>5 DEF Gate, Running
    <3>2. CASE i = Len(stack[c])
      <4>1. Vetted(t, v)
        BY <2>5, <3>1, <3>2, GateVets DEF Top
      <4> QED
        BY <1>1, <3>1, <4>1
    <3>3. CASE i < Len(stack[c])
      <4>1. Vetted(t, v)
        BY <3>1, <3>3 DEF VettedFrames, PastGate
      <4> QED
        BY <1>1, <3>1, <4>1
    <3>4. i < Len(stack[c]) \/ i = Len(stack[c])
      BY <3>1, FramesTyped
    <3> QED
      BY <3>2, <3>3, <3>4
  <2> QED
    BY <1>4, <2>1, <2>2, <2>3, <2>4, <2>5, MovesFrames
<1>5. CASE UNCHANGED <<pc, stack>>
  BY <1>2, <1>5
<1> QED
  BY <1>2, <1>3, <1>4, <1>5, Zenon DEF Next, Moves, Publish, Review, Replicate, vars

LEMMA VettedLogStep ==
  ASSUME TypeOK, Resolution, VettedFrames, VettedLog, [Next]_vars
  PROVE  VettedLog'
<1> SUFFICES ASSUME NEW c \in Calls, NEW i \in 1..Len(log'[c]), log'[c][i].outcome = "success",
                    NEW t, NEW v, t = log'[c][i].tool, v = log'[c][i].version
             PROVE  Vetted(t, v)'
  BY Zenon DEF VettedLog, Successes
<1>1. CASE i \in 1..Len(log[c]) /\ log'[c][i] = log[c][i]
  <2>1. Vetted(t, v)
    BY <1>1 DEF VettedLog, Successes
  <2>2. log[c][i] \in EventType
    BY <1>1, ElementOfSeq DEF TypeOK
  <2>3. t \in Tools /\ v \in {0} \cup Versions /\ v # 0
    BY <1>1, <2>1, <2>2 DEF EventType, Vetted
  <2> QED
    BY <2>1, <2>3, VettedForGood
<1>2. CASE log'[c] = log[c]
  BY <1>1, <1>2
<1>3. ASSUME NEW k \in Calls, Moves(k), c # k PROVE log'[c] = log[c]
  BY <1>3, MovesAlone
<1>4. CASE Moves(c)
  <2>1. PICK event : /\ GrowsBy(c, event)
                     /\ \/ event.outcome = "error"
                        \/ Run(c) /\ event = Event(c, "success", Top(c).ver)
    BY <1>4, MovesLog
  <2>2. PICK n \in Nat : n = Len(log[c])
    BY LenProperties DEF TypeOK
  <2>3. CASE i \in 1..n
    BY <1>1, <2>1, <2>2, <2>3 DEF GrowsBy
  <2>4. CASE i \in n + 1..Len(log'[c])
    <3>1. Run(c) /\ log'[c][i] = Event(c, "success", Top(c).ver)
      BY <2>1, <2>2, <2>4 DEF GrowsBy
    <3>2. t = Top(c).tool /\ v = Top(c).ver
      BY <3>1 DEF Event
    <3>3. pc[c] \in Running /\ pc[c] = "body"
      BY <3>1 DEF Run, Running
    <3>4. PICK m \in 1..Len(stack[c]) : Top(c) = stack[c][m]
      BY <3>3, FramesTyped DEF Top
    <3>5. Vetted(t, v)
      BY <3>2, <3>3, <3>4 DEF VettedFrames, PastGate
    <3> QED
      BY <3>2, <3>3, <3>4, <3>5, RefTyped, VettedForGood
  <2>5. i \in 1..n \/ i \in n + 1..Len(log'[c])
    BY <2>2
  <2> QED
    BY <2>3, <2>4, <2>5
<1>5. CASE UNCHANGED log
  BY <1>2, <1>5
<1> QED
  BY <1>2, <1>3, <1>4, <1>5, Zenon DEF Next, Moves, Publish, Review, Replicate, vars

(* Absence of an approval is a refusal, at every depth and however far the *)
(* replicas lag: what has run with success has code and has been decided   *)
(* about by a reviewer.                                                    *)
THEOREM OnlyReviewedCodeRuns == Spec => []UnreviewedNeverRuns
<1>1. Init => ReplicaFollows /\ VettedFrames /\ VettedLog
  BY DEF Init, ReplicaFollows, VettedFrames, VettedLog, Successes, Running
<1>2. VettedLog => UnreviewedNeverRuns
  BY DEF VettedLog, UnreviewedNeverRuns, Vetted
<1> QED
  BY <1>1, <1>2, ReplicaFollowsStep, VettedFramesStep, VettedLogStep, ExecutionTypes, PTL DEF Spec

-----------------------------------------------------------------------------
(* Reads that do not lag: what is approved now has been approved at some   *)
(* time since the call began.                                              *)
ApprovedIsNotBarred ==
  \A k \in Calls : pc[k] \in Running =>
    \A ref \in Refs : approvals[ref] = "approved" => ref \notin barred[k]

(* While a call runs, nothing is added to what it is barred from.          *)
LEMMA BarredShrinks ==
  ASSUME TypeOK, [Next]_vars, NEW c \in Calls, pc[c] \in Running, pc'[c] \in Running
  PROVE  barred'[c] \subseteq barred[c]
<1>1. ASSUME NEW t \in Tools, NEW v \in Versions, Review(t, v) PROVE barred'[c] \subseteq barred[c]
  BY <1>1 DEF Review, TypeOK
<1>2. ASSUME NEW k \in Calls, Moves(k), k # c PROVE barred'[c] = barred[c]
  BY <1>2, MovesAlone
<1>3. ASSUME NEW t, NEW pin, Begin(c, t, pin) PROVE FALSE
  BY <1>3 DEF Begin, Running
<1>4. CASE TurnAway(c) \/ Throw(c) \/ Crash(c)
  BY <1>4 DEF TurnAway, Throw, Unwind, Crash
<1>5. CASE Step(c)
  <2>1. CASE FailingStep(c)
    BY <2>1, FailShape, Zenon DEF FailingStep
  <2>2. CASE Run(c)
    BY <2>2, RunShape
  <2>3. CASE Resolve(c) \/ Descend(c) \/ Gate(c)
    BY <2>3 DEF Resolve, Descend, Gate, Continue
  <2> QED
    BY <1>5, <2>1, <2>2, <2>3, StepCases
<1>6. CASE UNCHANGED barred
  BY <1>6
<1> QED
  BY <1>1, <1>2, <1>3, <1>4, <1>5, <1>6, Zenon DEF Next, Moves, Publish, Replicate, vars

LEMMA ApprovedIsNotBarredStep ==
  ASSUME TypeOK, Resolution, ApprovedIsNotBarred, [Next]_vars
  PROVE  ApprovedIsNotBarred'
<1> SUFFICES ASSUME NEW c \in Calls, pc'[c] \in Running,
                    NEW ref \in Refs, approvals'[ref] = "approved"
             PROVE  ref \notin barred'[c]
  BY DEF ApprovedIsNotBarred
<1>1. ASSUME NEW t \in Tools, NEW v \in Versions, Review(t, v) PROVE ref \notin barred'[c]
  <2>1. PICK verdict \in Verdicts :
          /\ approvals' = [approvals EXCEPT ![<<t, v>>] = verdict]
          /\ barred' = IF verdict = "approved"
                       THEN [k \in Calls |-> barred[k] \ {<<t, v>>}]
                       ELSE barred
    BY <1>1 DEF Review
  <2>2. pc[c] \in Running
    BY <1>1 DEF Review
  <2>3. CASE ref = <<t, v>>
    <3>1. verdict = "approved"
      BY <2>1, <2>3 DEF TypeOK
    <3> QED
      BY <2>1, <2>3, <3>1
  <2>4. CASE ref # <<t, v>>
    <3>1. approvals[ref] = "approved"
      BY <2>1, <2>4 DEF TypeOK
    <3> QED
      BY <2>1, <2>2, <3>1 DEF ApprovedIsNotBarred
  <2> QED
    BY <2>3, <2>4
<1>2. CASE UNCHANGED <<approvals, pc, barred>>
  BY <1>2 DEF ApprovedIsNotBarred
<1>3. ASSUME NEW k \in Calls, Moves(k), k # c PROVE ref \notin barred'[c]
  BY <1>3, MovesAlone DEF ApprovedIsNotBarred, tables
<1>4. CASE Moves(c)
  <2>1. UNCHANGED approvals
    BY <1>4, MovesAlone DEF tables
  <2> QED
    BY <1>4, <2>1, MovesFrames DEF ApprovedIsNotBarred, Approved
<1> QED
  BY <1>1, <1>2, <1>3, <1>4, Zenon DEF Next, Moves, Publish, Replicate, vars

LEMMA RevokedStopsStep ==
  ASSUME "stale_read" \notin Faults,
         TypeOK, Resolution, ApprovedIsNotBarred, RevokedStops, [Next]_vars
  PROVE  RevokedStops'
<1> SUFFICES ASSUME NEW c \in Calls, pc'[c] \in Running,
                    NEW i \in 1..Len(stack'[c]),
                    i < Len(stack'[c]) \/ pc'[c] \in {"body", "failing"},
                    NEW ref, ref = <<stack'[c][i].tool, stack'[c][i].ver>>
             PROVE  ref \notin barred'[c]
  BY Zenon DEF RevokedStops, PastGate
<1>1. CASE pc'[c] = pc[c] /\ stack'[c] = stack[c]
  <2>1. ref \notin barred[c]
    BY <1>1 DEF RevokedStops, PastGate
  <2> QED
    BY <1>1, <2>1, BarredShrinks
<1>2. ASSUME NEW k \in Calls, Moves(k), c # k PROVE pc'[c] = pc[c] /\ stack'[c] = stack[c]
  BY <1>2, MovesAlone
<1>3. CASE Moves(c)
  <2>1. CASE Len(stack'[c]) = 1 /\ pc'[c] = "resolve"
    BY <2>1
  <2>2. CASE pc[c] \in Running /\ Kept(c)
    <3>1. Len(stack[c]) \in Nat /\ Len(stack'[c]) < Len(stack[c])
      BY <2>2, FramesTyped DEF Kept
    <3>2. i \in 1..Len(stack[c]) /\ i < Len(stack[c])
      BY <3>1
    <3>3. ref = <<stack[c][i].tool, stack[c][i].ver>>
      BY <2>2 DEF Kept
    <3>4. ref \notin barred[c]
      BY <2>2, <3>2, <3>3 DEF RevokedStops, PastGate
    <3> QED
      BY <2>2, <3>4, BarredShrinks
  <2>3. CASE Resolve(c)
    <3>1. pc[c] \in Running /\ pc'[c] = "gate"
      BY <2>3 DEF Resolve, Continue, Running, TypeOK
    <3>2. Len(stack'[c]) = Len(stack[c])
      BY <2>3, ResolveFrames
    <3>3. i \in 1..Len(stack[c]) /\ i < Len(stack[c])
      BY <3>1, <3>2
    <3>4. stack'[c][i] = stack[c][i]
      BY <2>3, <3>3, ResolveFrames
    <3>5. ref \notin barred[c]
      BY <3>1, <3>3, <3>4 DEF RevokedStops, PastGate
    <3> QED
      BY <3>1, <3>5, BarredShrinks
  <2>4. CASE Descend(c)
    <3>1. pc[c] = "body" /\ pc[c] \in Running /\ pc'[c] = "resolve"
      BY <2>4 DEF Descend, Continue, Running, TypeOK
    <3>2. Len(stack[c]) \in Nat
      BY <3>1, FramesTyped
    <3>3. /\ Len(stack'[c]) = Len(stack[c]) + 1
          /\ \A j \in 1..Len(stack[c]) : stack'[c][j] = stack[c][j]
      BY <2>4, DescendFrame, Zenon
    <3>4. i \in 1..Len(stack[c])
      BY <3>1, <3>2, <3>3
    <3>5. ref = <<stack[c][i].tool, stack[c][i].ver>>
      BY <3>3, <3>4
    <3>6. ref \notin barred[c]
      BY <3>1, <3>4, <3>5 DEF RevokedStops, PastGate
    <3> QED
      BY <3>1, <3>6, BarredShrinks
  <2>5. CASE Gate(c)
    <3>1. pc[c] = "gate" /\ pc[c] \in Running /\ UNCHANGED stack
      BY <2>5 DEF Gate, Running
    <3>2. CASE i = Len(stack[c])
      <4>1. ref = <<Top(c).tool, Top(c).ver>> /\ Top(c) \in FrameType
        BY <3>1, <3>2, FramesTyped DEF Top
      <4>2. Top(c).ver # 0
        BY <3>1, <3>2 DEF Resolution, Settled, Top
      <4>3. ref \in Refs
        BY <4>1, <4>2 DEF FrameType, Refs
      <4>4. "approved" \in Shown(ref)
        BY <2>5, <4>1 DEF Gate
      <4>5. approvals[ref] = "approved"
        BY <4>4 DEF Shown
      <4>6. ref \notin barred[c]
        BY <3>1, <4>3, <4>5 DEF ApprovedIsNotBarred
      <4> QED
        BY <3>1, <4>6, BarredShrinks
    <3>3. CASE i < Len(stack[c])
      <4>1. ref \notin barred[c]
        BY <3>1, <3>3 DEF RevokedStops, PastGate
      <4> QED
        BY <3>1, <4>1, BarredShrinks
    <3>4. i < Len(stack[c]) \/ i = Len(stack[c])
      BY <3>1, FramesTyped
    <3> QED
      BY <3>2, <3>3, <3>4
  <2> QED
    BY <1>3, <2>1, <2>2, <2>3, <2>4, <2>5, MovesFrames
<1>4. CASE UNCHANGED <<pc, stack>>
  BY <1>1, <1>4
<1> QED
  BY <1>1, <1>2, <1>3, <1>4, Zenon DEF Next, Moves, Publish, Review, Replicate, vars

(* When the approvals are read where they are written, nothing that runs   *)
(* was barred all along: a version revoked, rejected or never reviewed     *)
(* before a call begins does not run in it, as a root or as a dependency.  *)
THEOREM RevokedVersionsStop ==
  ASSUME "stale_read" \notin Faults
  PROVE  Spec => []RevokedStops
<1>1. Init => ApprovedIsNotBarred /\ RevokedStops
  BY DEF Init, ApprovedIsNotBarred, RevokedStops, Running
<1>2. TypeOK /\ Resolution /\ ApprovedIsNotBarred /\ [Next]_vars => ApprovedIsNotBarred'
  BY ApprovedIsNotBarredStep
<1>3. TypeOK /\ Resolution /\ ApprovedIsNotBarred /\ RevokedStops /\ [Next]_vars => RevokedStops'
  BY RevokedStopsStep
<1> QED
  BY <1>1, <1>2, <1>3, ExecutionTypes, PTL DEF Spec

-----------------------------------------------------------------------------
(* The log and the declarations.  Uses is what a frame's row declares, and *)
(* Fulfilled says that a dependency has run for a tool at some depth.      *)
Uses(k, i) == store[stack[k][i].tool][stack[k][i].ver].uses

Fulfilled(events, dep, user, level, before) ==
  \E j \in 1..Len(events) :
    /\ events[j].outcome = "success"
    /\ j < before
    /\ events[j].tool = dep.tool
    /\ events[j].via = {user}
    /\ events[j].depth = level
    /\ dep.pin # 0 => events[j].version = dep.pin

(* A frame that resolves has fulfilled nothing, and one that has resolved  *)
(* is at the version it was asked for.                                     *)
Pinned ==
  \A k \in Calls : pc[k] \in Running =>
    \A i \in 1..Len(stack[k]) :
      IF Settled(k, i) THEN stack[k][i].pin # 0 => stack[k][i].ver = stack[k][i].pin
                       ELSE stack[k][i].next = 1

(* A frame runs for the next dependency of the frame above it. *)
Linked ==
  \A k \in Calls : pc[k] \in Running =>
    \A i \in 1..Len(stack[k]) : i < Len(stack[k]) =>
      /\ stack[k][i].next \in 1..Len(Uses(k, i))
      /\ stack[k][i + 1].tool = Uses(k, i)[stack[k][i].next].tool
      /\ stack[k][i + 1].pin = Uses(k, i)[stack[k][i].next].pin

(* What comes before a frame's next dependency is fulfilled. *)
Met ==
  \A k \in Calls : pc[k] \in Running =>
    \A i \in 1..Len(stack[k]) : Settled(k, i) =>
      \A d \in 1..Len(Uses(k, i)) : d < stack[k][i].next =>
        Fulfilled(log[k], Uses(k, i)[d], stack[k][i].tool, i, Len(log[k]) + 1)

LEMMA RowsStay ==
  ASSUME TypeOK, [Next]_vars, NEW t \in Tools, NEW v \in 1..Len(store[t])
  PROVE  store'[t][v] = store[t][v]
<1>1. ASSUME NEW u \in Tools, Publish(u) PROVE store'[t][v] = store[t][v]
  BY <1>1, PublishAdds
<1>2. ASSUME NEW k \in Calls, Moves(k) PROVE UNCHANGED store
  BY <1>2, MovesAlone DEF tables
<1> QED
  BY <1>1, <1>2, Zenon DEF Next, Moves, Review, Replicate, vars

LEMMA LogStays ==
  ASSUME TypeOK, [Next]_vars, NEW c \in Calls
  PROVE  /\ Len(log[c]) \in Nat /\ Len(log'[c]) \in Nat
         /\ Len(log[c]) =< Len(log'[c])
         /\ \A j \in 1..Len(log[c]) : log'[c][j] = log[c][j]
<1>1. log[c] \in Seq(EventType) /\ Len(log[c]) \in Nat
  BY LenProperties DEF TypeOK
<1>2. CASE log'[c] = log[c]
  BY <1>1, <1>2
<1>3. ASSUME NEW k \in Calls, Moves(k), k # c PROVE log'[c] = log[c]
  BY <1>3, MovesAlone
<1>4. CASE Moves(c)
  <2>1. PICK event : GrowsBy(c, event)
    BY <1>4, MovesLog
  <2> QED
    BY <1>1, <2>1 DEF GrowsBy
<1>5. CASE UNCHANGED log
  BY <1>2, <1>5
<1> QED
  BY <1>2, <1>3, <1>4, <1>5, Zenon DEF Next, Moves, Publish, Review, Replicate, vars

LEMMA FulfilledForGood ==
  ASSUME TypeOK, [Next]_vars, NEW c \in Calls, NEW dep, NEW user, NEW level,
         NEW before \in Nat, NEW later \in Nat, before =< later,
         Fulfilled(log[c], dep, user, level, before)
  PROVE  Fulfilled(log'[c], dep, user, level, later)
<1>1. PICK j \in 1..Len(log[c]) :
        /\ log[c][j].outcome = "success"
        /\ j < before
        /\ log[c][j].tool = dep.tool
        /\ log[c][j].via = {user}
        /\ log[c][j].depth = level
        /\ dep.pin # 0 => log[c][j].version = dep.pin
  BY DEF Fulfilled
<1>2. j < later
  <2>1. j \in Nat /\ j < before
    BY <1>1, LogStays
  <2> QED
    BY <2>1
<1>3. log'[c][j] = log[c][j] /\ j \in 1..Len(log'[c])
  BY LogStays
<1> QED
  BY <1>1, <1>2, <1>3, Zenon DEF Fulfilled

LEMMA RowTyped ==
  ASSUME TypeOK, NEW t \in Tools, NEW v \in 1..Len(store[t])
  PROVE  /\ store[t][v] \in Row
         /\ store[t][v].uses \in Seq(Dep)
         /\ Len(store[t][v].uses) \in Nat
<1>1. store[t] \in Seq(Row)
  BY DEF TypeOK
<1>2. store[t][v] \in Row
  BY <1>1, ElementOfSeq
<1>3. store[t][v].uses \in Seq(Dep)
  BY <1>2 DEF Row
<1> QED
  BY <1>2, <1>3, LenProperties

(* A frame whose row is known reads the same declarations ever after. *)
LEMMA UsesStay ==
  ASSUME TypeOK, Resolution, [Next]_vars, NEW c \in Calls, pc[c] \in Running,
         NEW i \in 1..Len(stack[c]), Settled(c, i)
  PROVE  /\ store'[stack[c][i].tool][stack[c][i].ver] = store[stack[c][i].tool][stack[c][i].ver]
         /\ Len(Uses(c, i)) \in Nat
<1>1. stack[c][i] \in FrameType
  BY FramesTyped
<1>2. stack[c][i].ver # 0 /\ stack[c][i].ver =< Len(store[stack[c][i].tool])
  BY DEF Resolution, TypeOK
<1>3. stack[c][i].tool \in Tools /\ store[stack[c][i].tool] \in Seq(Row)
  BY <1>1 DEF FrameType, TypeOK
<1>4. stack[c][i].ver \in 1..Len(store[stack[c][i].tool])
  BY <1>1, <1>2, <1>3, LenProperties, VersionAssumption DEF FrameType, Versions
<1>5. PICK t \in Tools : \E v \in 1..Len(store[t]) : t = stack[c][i].tool /\ v = stack[c][i].ver
  BY <1>3, <1>4
<1>6. PICK v \in 1..Len(store[t]) : t = stack[c][i].tool /\ v = stack[c][i].ver
  BY <1>5
<1>7. store'[t][v] = store[t][v] /\ Len(store[t][v].uses) \in Nat
  BY RowsStay, RowTyped
<1> QED
  BY <1>6, <1>7 DEF Uses

LEMMA PinnedStep ==
  ASSUME TypeOK, Resolution, Pinned, [Next]_vars
  PROVE  Pinned'
<1> SUFFICES ASSUME NEW c \in Calls, pc'[c] \in Running, NEW i \in 1..Len(stack'[c])
             PROVE  IF i < Len(stack'[c]) \/ pc'[c] # "resolve"
                    THEN stack'[c][i].pin # 0 => stack'[c][i].ver = stack'[c][i].pin
                    ELSE stack'[c][i].next = 1
  BY Zenon DEF Pinned, Settled
<1>1. CASE pc'[c] = pc[c] /\ stack'[c] = stack[c]
  BY <1>1 DEF Pinned, Settled
<1>2. ASSUME NEW k \in Calls, Moves(k), c # k PROVE pc'[c] = pc[c] /\ stack'[c] = stack[c]
  BY <1>2, MovesAlone
<1>3. CASE Moves(c)
  <2>1. CASE Len(stack'[c]) = 1 /\ pc'[c] = "resolve" /\ stack'[c][1].next = 1
    BY <2>1
  <2>2. CASE pc[c] \in Running /\ Kept(c) /\ pc'[c] # "resolve"
    <3>1. Len(stack[c]) \in Nat /\ Len(stack'[c]) < Len(stack[c])
      BY <2>2, FramesTyped DEF Kept
    <3>2. i \in 1..Len(stack[c]) /\ i < Len(stack[c])
      BY <3>1
    <3>3. stack'[c][i].pin = stack[c][i].pin /\ stack'[c][i].ver = stack[c][i].ver
      BY <2>2 DEF Kept
    <3> QED
      BY <2>2, <3>2, <3>3 DEF Pinned, Settled
  <2>3. CASE Resolve(c)
    <3>1. pc[c] \in Running /\ pc'[c] = "gate"
      BY <2>3 DEF Resolve, Continue, Running, TypeOK
    <3>2. PICK n \in Nat \ {0} : n = Len(stack[c])
      BY <3>1, FramesTyped
    <3>3. Len(stack'[c]) = n /\ i \in 1..n
      BY <2>3, <3>2, ResolveFrames
    <3>4. CASE i < n
      BY <2>3, <3>1, <3>2, <3>3, <3>4, ResolveFrames DEF Pinned, Settled
    <3>5. CASE i = n
      <4>1. stack'[c][n].pin = stack[c][n].pin /\ stack[c][n] = Top(c)
        BY <2>3, <3>2, ResolveFrames DEF Top
      <4>2. Top(c).pin # 0 => stack'[c][n].ver = Top(c).pin
        BY <2>3, <3>2, ResolveFrames
      <4> QED
        BY <3>1, <3>5, <4>1, <4>2
    <3> QED
      BY <3>3, <3>4, <3>5
  <2>4. CASE Descend(c)
    <3>1. pc[c] = "body" /\ pc[c] \in Running /\ pc'[c] = "resolve"
      BY <2>4 DEF Descend, Continue, Running, TypeOK
    <3>2. PICK n \in Nat : n = Len(stack[c])
      BY <3>1, FramesTyped
    <3>3. /\ Len(stack'[c]) = n + 1 /\ stack'[c][n + 1].next = 1
          /\ \A j \in 1..n : stack'[c][j] = stack[c][j]
      <4> DEFINE frame == Frame(TopRow(c).uses[Top(c).next].tool, TopRow(c).uses[Top(c).next].pin)
      <4>1. /\ Len(stack'[c]) = Len(stack[c]) + 1 /\ stack'[c][Len(stack[c]) + 1] = frame
            /\ \A j \in 1..Len(stack[c]) : stack'[c][j] = stack[c][j]
        BY <2>4, DescendFrame, Zenon
      <4>2. frame.next = 1
        BY DEF Frame
      <4> QED
        BY <3>2, <4>1, <4>2
    <3>4. CASE i \in 1..n
      BY <3>1, <3>2, <3>3, <3>4 DEF Pinned, Settled
    <3>5. CASE i = n + 1
      BY <3>1, <3>3, <3>5
    <3> QED
      BY <3>2, <3>3, <3>4, <3>5
  <2>5. CASE Gate(c)
    <3>1. pc[c] = "gate" /\ pc[c] \in Running /\ pc'[c] = "body" /\ UNCHANGED stack
      BY <2>5 DEF Gate, Continue, Running, TypeOK
    <3> QED
      BY <3>1 DEF Pinned, Settled
  <2> QED
    BY <1>3, <2>1, <2>2, <2>3, <2>4, <2>5, MovesFrames
<1>4. CASE UNCHANGED <<pc, stack>>
  BY <1>1, <1>4
<1> QED
  BY <1>1, <1>2, <1>3, <1>4, Zenon DEF Next, Moves, Publish, Review, Replicate, vars

LEMMA UsesKept ==
  ASSUME TypeOK, Resolution, [Next]_vars, NEW c \in Calls, pc[c] \in Running,
         NEW i \in 1..Len(stack[c]), Settled(c, i),
         stack'[c][i].tool = stack[c][i].tool, stack'[c][i].ver = stack[c][i].ver
  PROVE  Uses(c, i)' = Uses(c, i)
BY UsesStay DEF Uses

LEMMA LinkedStep ==
  ASSUME TypeOK, Resolution, Linked, [Next]_vars
  PROVE  Linked'
<1> SUFFICES ASSUME NEW c \in Calls, pc'[c] \in Running,
                    NEW i \in 1..Len(stack'[c]), i < Len(stack'[c])
             PROVE  /\ stack'[c][i].next \in 1..Len(Uses(c, i)')
                    /\ stack'[c][i + 1].tool = Uses(c, i)'[stack'[c][i].next].tool
                    /\ stack'[c][i + 1].pin = Uses(c, i)'[stack'[c][i].next].pin
  BY Zenon DEF Linked
<1>1. ASSUME pc[c] \in Running, i \in 1..Len(stack[c]), i < Len(stack[c]),
             stack'[c][i].tool = stack[c][i].tool, stack'[c][i].ver = stack[c][i].ver,
             stack'[c][i].next = stack[c][i].next,
             stack'[c][i + 1].tool = stack[c][i + 1].tool,
             stack'[c][i + 1].pin = stack[c][i + 1].pin
      PROVE  /\ stack'[c][i].next \in 1..Len(Uses(c, i)')
             /\ stack'[c][i + 1].tool = Uses(c, i)'[stack'[c][i].next].tool
             /\ stack'[c][i + 1].pin = Uses(c, i)'[stack'[c][i].next].pin
  <2>1. Uses(c, i)' = Uses(c, i)
    BY <1>1, UsesKept DEF Settled
  <2> QED
    BY <1>1, <2>1 DEF Linked
<1>2. CASE pc'[c] = pc[c] /\ stack'[c] = stack[c]
  BY <1>1, <1>2
<1>3. ASSUME NEW k \in Calls, Moves(k), c # k PROVE pc'[c] = pc[c] /\ stack'[c] = stack[c]
  BY <1>3, MovesAlone
<1>4. CASE Moves(c)
  <2>1. CASE Len(stack'[c]) = 1
    BY <2>1
  <2>2. CASE pc[c] \in Running /\ Kept(c) /\ Len(stack'[c]) = Len(stack[c]) - 1
    <3>1. PICK n \in Nat \ {0} : n = Len(stack[c])
      BY <2>2, FramesTyped
    <3>2. Len(stack'[c]) = n - 1
      BY <2>2, <3>1
    <3>3. i \in 1..n /\ i < n /\ i + 1 \in 1..Len(stack'[c])
      BY <3>1, <3>2
    <3>4. /\ stack'[c][i].tool = stack[c][i].tool /\ stack'[c][i].ver = stack[c][i].ver
          /\ stack'[c][i].next = stack[c][i].next
      BY <2>2 DEF Kept
    <3>5. /\ stack'[c][i + 1].tool = stack[c][i + 1].tool
          /\ stack'[c][i + 1].pin = stack[c][i + 1].pin
      BY <2>2, <3>3 DEF Kept
    <3> QED
      BY <1>1, <2>2, <3>1, <3>3, <3>4, <3>5
  <2>3. CASE Resolve(c)
    <3>1. pc[c] \in Running
      BY <2>3 DEF Resolve, Running
    <3>2. PICK n \in Nat \ {0} : n = Len(stack[c])
      BY <3>1, FramesTyped
    <3>3. Len(stack'[c]) = n
      BY <2>3, <3>2, ResolveFrames
    <3>4. i \in 1..n /\ i < n /\ i + 1 \in 1..n
      BY <3>2, <3>3
    <3>5. stack'[c][i] = stack[c][i]
      BY <2>3, <3>2, <3>4, ResolveFrames
    <3>6. /\ stack'[c][i + 1].tool = stack[c][i + 1].tool
          /\ stack'[c][i + 1].pin = stack[c][i + 1].pin
      BY <2>3, <3>2, <3>4, ResolveFrames
    <3> QED
      BY <1>1, <3>1, <3>2, <3>4, <3>5, <3>6
  <2>4. CASE Descend(c)
    <3>1. pc[c] = "body" /\ pc[c] \in Running
      BY <2>4 DEF Descend, Running
    <3>2. PICK n \in Nat \ {0} : n = Len(stack[c])
      BY <3>1, FramesTyped
    <3>3. /\ Top(c).next \in 1..Len(TopRow(c).uses)
          /\ Len(stack'[c]) = n + 1
          /\ \A j \in 1..n : stack'[c][j] = stack[c][j]
          /\ stack'[c][n + 1] = Frame(TopRow(c).uses[Top(c).next].tool,
                                      TopRow(c).uses[Top(c).next].pin)
      BY <2>4, <3>2, DescendFrame, Zenon
    <3>4. i \in 1..n
      BY <3>2, <3>3
    <3>5. CASE i < n
      <4>1. i + 1 \in 1..n
        BY <3>4, <3>5
      <4> QED
        BY <1>1, <3>1, <3>2, <3>3, <3>4, <3>5, <4>1
    <3>6. CASE i = n
      <4>1. Top(c) = stack[c][i] /\ TopRow(c).uses = Uses(c, i) /\ stack'[c][i] = stack[c][i]
        BY <3>2, <3>3, <3>4, <3>6 DEF Top, TopRow, Uses
      <4>2. Uses(c, i)' = Uses(c, i)
        BY <3>1, <3>2, <3>4, <4>1, UsesKept DEF Settled
      <4>3. /\ stack'[c][i + 1].tool = Uses(c, i)[Top(c).next].tool
            /\ stack'[c][i + 1].pin = Uses(c, i)[Top(c).next].pin
        BY <3>3, <3>6, <4>1 DEF Frame
      <4> QED
        BY <3>3, <4>1, <4>2, <4>3
    <3> QED
      BY <3>2, <3>4, <3>5, <3>6
  <2>5. CASE Gate(c)
    <3>1. pc[c] \in Running /\ UNCHANGED stack
      BY <2>5 DEF Gate, Running
    <3> QED
      BY <1>1, <3>1
  <2> QED
    BY <1>4, <2>1, <2>2, <2>3, <2>4, <2>5, MovesFrames
<1>5. CASE UNCHANGED <<pc, stack>>
  BY <1>2, <1>5
<1> QED
  BY <1>2, <1>3, <1>4, <1>5, Zenon DEF Next, Moves, Publish, Review, Replicate, vars

(* Running a tool for another records it, and the other is one frame up.   *)
LEMMA RunRecords ==
  ASSUME TypeOK, NEW k \in Calls, Run(k), pc'[k] \in Running
  PROVE  /\ Len(stack[k]) - 1 \in 1..Len(stack[k])
         /\ Len(log[k]) \in Nat /\ Len(log'[k]) = Len(log[k]) + 1
         /\ log'[k][Len(log[k]) + 1] =
              [tool |-> Top(k).tool, version |-> Top(k).ver, outcome |-> "success",
               self |-> SelfCall(k), via |-> {stack[k][Len(stack[k]) - 1].tool},
               depth |-> Len(stack[k]) - 1]
<1>1. pc[k] \in Running
  BY DEF Run, Running
<1>2. Depth(k) = Len(stack[k]) - 1 /\ Len(stack[k]) \in Nat \ {0}
  BY <1>1, FramesTyped
<1>3. \/ pc' = [pc EXCEPT ![k] = "done"]
      \/ /\ Depth(k) > 0
         /\ log' = [log EXCEPT ![k] = Append(log[k], Event(k, "success", Top(k).ver))]
  BY Zenon DEF Run, Unwind
<1>4. /\ Depth(k) > 0
      /\ log' = [log EXCEPT ![k] = Append(log[k], Event(k, "success", Top(k).ver))]
  BY <1>3 DEF TypeOK, Running
<1>5. Depth(k) # 0 /\ Depth(k) \in 1..Len(stack[k])
  <2>1. PICK n \in Nat \ {0} : n = Len(stack[k])
    BY <1>2
  <2>2. PICK depth \in Nat : depth = Depth(k) /\ depth = n - 1 /\ depth > 0
    BY <1>2, <1>4, <2>1
  <2>3. depth # 0 /\ depth \in 1..n
    BY <2>2
  <2> QED
    BY <2>1, <2>2, <2>3, Zenon
<1>6. PICK event : event = Event(k, "success", Top(k).ver)
  OBVIOUS
<1>7. Top(k).ver \in {0} \cup Versions
  BY <1>1, FramesTyped DEF FrameType
<1>8. event \in EventType
  BY <1>1, <1>6, <1>7, EventTyped
<1>9. log[k] \in Seq(EventType) /\ log'[k] = Append(log[k], event)
  BY <1>4, <1>6 DEF TypeOK
<1>10. /\ Len(log[k]) \in Nat /\ Len(log'[k]) = Len(log[k]) + 1
       /\ log'[k][Len(log[k]) + 1] = event
  BY <1>8, <1>9, LenProperties, AppendGrows
<1>11. event = [tool |-> Top(k).tool, version |-> Top(k).ver, outcome |-> "success",
                self |-> SelfCall(k), via |-> {stack[k][Len(stack[k]) - 1].tool},
                depth |-> Len(stack[k]) - 1]
  BY <1>2, <1>5, <1>6, Zenon DEF Event, Via
<1> QED
  BY <1>2, <1>5, <1>10, <1>11

LEMMA MetStep ==
  ASSUME TypeOK, Resolution, Pinned, Linked, Met, [Next]_vars
  PROVE  Met'
<1> SUFFICES ASSUME NEW c \in Calls, pc'[c] \in Running,
                    NEW i \in 1..Len(stack'[c]), i < Len(stack'[c]) \/ pc'[c] # "resolve",
                    NEW d \in 1..Len(Uses(c, i)'), d < stack'[c][i].next
             PROVE  Fulfilled(log'[c], Uses(c, i)'[d], stack'[c][i].tool, i, Len(log'[c]) + 1)
  BY Zenon DEF Met, Settled
<1>1. ASSUME pc[c] \in Running, i \in 1..Len(stack[c]), Settled(c, i),
             stack'[c][i].tool = stack[c][i].tool, stack'[c][i].ver = stack[c][i].ver,
             d < stack[c][i].next
      PROVE  Fulfilled(log'[c], Uses(c, i)'[d], stack'[c][i].tool, i, Len(log'[c]) + 1)
  <2>1. Uses(c, i)' = Uses(c, i)
    BY <1>1, UsesKept
  <2>2. Fulfilled(log[c], Uses(c, i)[d], stack[c][i].tool, i, Len(log[c]) + 1)
    BY <1>1, <2>1 DEF Met
  <2>3. /\ Len(log[c]) + 1 \in Nat /\ Len(log'[c]) + 1 \in Nat
        /\ Len(log[c]) + 1 =< Len(log'[c]) + 1
    BY LogStays
  <2> QED
    BY <1>1, <2>1, <2>2, <2>3, FulfilledForGood
<1>2. CASE pc'[c] = pc[c] /\ stack'[c] = stack[c]
  BY <1>1, <1>2 DEF Settled
<1>3. ASSUME NEW k \in Calls, Moves(k), c # k PROVE pc'[c] = pc[c] /\ stack'[c] = stack[c]
  BY <1>3, MovesAlone
<1>4. CASE Moves(c)
  <2>1. CASE Len(stack'[c]) = 1 /\ pc'[c] = "resolve"
    BY <2>1
  <2>2. CASE pc[c] \in Running /\ Kept(c) /\ Len(stack'[c]) = Len(stack[c]) - 1
    <3>1. PICK n \in Nat \ {0} : n = Len(stack[c])
      BY <2>2, FramesTyped
    <3>2. i \in 1..n /\ i < n /\ Len(stack'[c]) = n - 1
      BY <2>2, <3>1
    <3>3. Settled(c, i)
      BY <3>1, <3>2 DEF Settled
    <3>4. stack'[c][i].tool = stack[c][i].tool /\ stack'[c][i].ver = stack[c][i].ver
      BY <2>2 DEF Kept
    <3>5. stack[c][i] \in FrameType /\ stack[c][i].next \in Nat
      BY <2>2, <3>1, <3>2, FramesTyped DEF FrameType
    <3>6. CASE d < stack[c][i].next
      BY <1>1, <2>2, <3>1, <3>2, <3>3, <3>4, <3>6
    <3>7. CASE i = n - 1 /\ Run(c) /\ d = stack[c][i].next
      <4>1. Uses(c, i)' = Uses(c, i)
        BY <2>2, <3>1, <3>2, <3>3, <3>4, UsesKept
      <4>2. stack[c][n].tool = Uses(c, i)[d].tool /\ stack[c][n].pin = Uses(c, i)[d].pin
        BY <2>2, <3>1, <3>2, <3>7 DEF Linked
      <4>3. pc[c] = "body" /\ n \in 1..n
        BY <3>7 DEF Run
      <4>4. stack[c][n].pin # 0 => stack[c][n].ver = stack[c][n].pin
        BY <2>2, <3>1, <4>3 DEF Pinned, Settled
      <4>5. Top(c) = stack[c][n]
        BY <3>1 DEF Top
      <4>6. /\ Len(log[c]) \in Nat /\ Len(log'[c]) = Len(log[c]) + 1
            /\ log'[c][Len(log[c]) + 1] =
                 [tool |-> stack[c][n].tool, version |-> stack[c][n].ver, outcome |-> "success",
                  self |-> SelfCall(c), via |-> {stack[c][i].tool}, depth |-> i]
        BY <3>1, <3>7, <4>5, RunRecords
      <4>7. PICK m \in Nat : m = Len(log[c]) + 1
        BY <4>6
      <4>8. m \in 1..Len(log'[c]) /\ m < Len(log'[c]) + 1
        BY <4>6, <4>7
      <4>9. /\ log'[c][m].outcome = "success"
            /\ log'[c][m].tool = Uses(c, i)[d].tool
            /\ log'[c][m].via = {stack[c][i].tool}
            /\ log'[c][m].depth = i
            /\ Uses(c, i)[d].pin # 0 => log'[c][m].version = Uses(c, i)[d].pin
        BY <4>2, <4>4, <4>6, <4>7
      <4> QED
        BY <3>4, <4>1, <4>8, <4>9, Zenon DEF Fulfilled
    <3>8. \/ stack'[c][i].next = stack[c][i].next
          \/ i = n - 1 /\ Run(c) /\ stack'[c][i].next = stack[c][i].next + 1
      BY <2>2, <3>2 DEF Kept
    <3>9. d < stack[c][i].next \/ (i = n - 1 /\ Run(c) /\ d = stack[c][i].next)
      <4>1. PICK next \in Nat : next = stack[c][i].next
        BY <3>5
      <4>2. d \in Nat
        BY <2>2, <3>1, <3>2, <3>3, <3>4, UsesKept, UsesStay
      <4> QED
        BY <3>8, <4>1, <4>2
    <3> QED
      BY <3>6, <3>7, <3>9
  <2>3. CASE Resolve(c)
    <3>1. pc[c] \in Running /\ pc[c] = "resolve"
      BY <2>3 DEF Resolve, Running
    <3>2. PICK n \in Nat \ {0} : n = Len(stack[c])
      BY <3>1, FramesTyped
    <3>3. Len(stack'[c]) = n /\ i \in 1..n
      BY <2>3, <3>2, ResolveFrames
    <3>4. CASE i < n
      <4>1. stack'[c][i] = stack[c][i]
        BY <2>3, <3>2, <3>3, <3>4, ResolveFrames
      <4> QED
        BY <1>1, <3>1, <3>2, <3>3, <3>4, <4>1 DEF Settled
    <3>5. CASE i = n
      <4>1. stack[c][n].next = 1
        BY <3>1, <3>2, <3>3, <3>5 DEF Pinned, Settled
      <4>2. stack'[c][n].next = 1
        BY <2>3, <3>2, <4>1, ResolveFrames
      <4> QED
        BY <3>5, <4>2
    <3> QED
      BY <3>3, <3>4, <3>5
  <2>4. CASE Descend(c)
    <3>1. pc[c] = "body" /\ pc[c] \in Running /\ pc'[c] = "resolve"
      BY <2>4 DEF Descend, Continue, Running, TypeOK
    <3>2. PICK n \in Nat \ {0} : n = Len(stack[c])
      BY <3>1, FramesTyped
    <3>3. /\ Len(stack'[c]) = n + 1
          /\ \A j \in 1..n : stack'[c][j] = stack[c][j]
      BY <2>4, <3>2, DescendFrame, Zenon
    <3>4. i \in 1..n
      BY <3>1, <3>2, <3>3
    <3>5. stack'[c][i] = stack[c][i]
      BY <3>3, <3>4
    <3> QED
      BY <1>1, <3>1, <3>2, <3>4, <3>5 DEF Settled
  <2>5. CASE Gate(c)
    <3>1. pc[c] = "gate" /\ pc[c] \in Running /\ UNCHANGED stack
      BY <2>5 DEF Gate, Running
    <3> QED
      BY <1>1, <3>1 DEF Settled
  <2> QED
    BY <1>4, <2>1, <2>2, <2>3, <2>4, <2>5, MovesFrames
<1>5. CASE UNCHANGED <<pc, stack>>
  BY <1>2, <1>5
<1> QED
  BY <1>2, <1>3, <1>4, <1>5, Zenon DEF Next, Moves, Publish, Review, Replicate, vars

(* Every success in the log has a success of each of its dependencies      *)
(* before it.                                                              *)
FulfilledLog ==
  \A k \in Calls : \A i \in Successes(k) :
    LET e    == log[k][i]
        uses == store[e.tool][e.version].uses
    IN  \A d \in 1..Len(uses) : Fulfilled(log[k], uses[d], e.tool, e.depth + 1, i)

LEMMA FulfilledLogStep ==
  ASSUME TypeOK, Resolution, VettedFrames, VettedLog, Met, FulfilledLog, [Next]_vars
  PROVE  FulfilledLog'
<1> DEFINE Fine(c, i, e) ==
      \A d \in 1..Len(store'[e.tool][e.version].uses) :
        Fulfilled(log'[c], store'[e.tool][e.version].uses[d], e.tool, e.depth + 1, i)
<1> SUFFICES ASSUME NEW c \in Calls, NEW i \in 1..Len(log'[c]),
                    log'[c][i].outcome = "success"
             PROVE  Fine(c, i, log'[c][i])
  BY Zenon DEF FulfilledLog, Successes
<1>1. CASE i \in 1..Len(log[c]) /\ log'[c][i] = log[c][i]
  <2>1. PICK e : e = log[c][i] /\ e = log'[c][i]
    BY <1>1
  <2>2. Vetted(e.tool, e.version) /\ i \in Successes(c)
    BY <1>1, <2>1 DEF VettedLog, Successes
  <2>3. e.tool \in Tools
    <3>1. log[c] \in Seq(EventType)
      BY DEF TypeOK
    <3>2. e \in EventType
      BY <1>1, <2>1, <3>1, ElementOfSeq
    <3> QED
      BY <3>2 DEF EventType
  <2>4. PICK t \in Tools : t = e.tool
    BY <2>3
  <2>5. PICK v \in 1..Len(store[t]) : v = e.version
    BY <2>2, <2>4 DEF Vetted
  <2>6. store'[t][v] = store[t][v]
    BY RowsStay
  <2>7. \A d \in 1..Len(store[t][v].uses) :
          Fulfilled(log[c], store[t][v].uses[d], e.tool, e.depth + 1, i)
    BY <2>1, <2>2, <2>4, <2>5 DEF FulfilledLog
  <2>8. \A d \in 1..Len(store[t][v].uses) :
          Fulfilled(log'[c], store[t][v].uses[d], e.tool, e.depth + 1, i)
    <3>1. i \in Nat /\ i =< i
      OBVIOUS
    <3> QED
      BY <2>7, <3>1, FulfilledForGood
  <2>9. Fine(c, i, e)
    BY <2>4, <2>5, <2>6, <2>8, Zenon
  <2> QED
    BY <2>1, <2>9, Zenon
<1>2. CASE log'[c] = log[c]
  BY <1>1, <1>2
<1>3. ASSUME NEW k \in Calls, Moves(k), c # k PROVE log'[c] = log[c]
  BY <1>3, MovesAlone
<1>4. CASE Moves(c)
  <2>1. PICK event : /\ GrowsBy(c, event)
                     /\ \/ event.outcome = "error"
                        \/ Run(c) /\ event = Event(c, "success", Top(c).ver)
    BY <1>4, MovesLog
  <2>2. PICK n \in Nat : n = Len(log[c])
    BY LenProperties DEF TypeOK
  <2>3. CASE i \in 1..n
    BY <1>1, <2>1, <2>2, <2>3 DEF GrowsBy
  <2>4. CASE i \in n + 1..Len(log'[c])
    <3>1. /\ Run(c) /\ log'[c][i] = Event(c, "success", Top(c).ver)
          /\ i = n + 1
      BY <2>1, <2>2, <2>4 DEF GrowsBy
    <3>2. pc[c] \in Running /\ pc[c] = "body" /\ ~Pending(c)
      BY <3>1 DEF Run, Running
    <3>3. PICK m \in Nat \ {0} : m = Len(stack[c])
      BY <3>2, FramesTyped
    <3>4. /\ m \in 1..Len(stack[c]) /\ Settled(c, m)
          /\ Top(c) = stack[c][m] /\ Top(c) \in FrameType
      BY <3>2, <3>3, FramesTyped DEF Top, Settled
    <3>5. PICK t : t = log'[c][i].tool /\ t = stack[c][m].tool
      BY <3>1, <3>4 DEF Event
    <3>6. PICK v : v = log'[c][i].version /\ v = stack[c][m].ver
      BY <3>1, <3>4 DEF Event
    <3>7. store'[t][v] = store[t][v] /\ Len(store[t][v].uses) \in Nat
          /\ Uses(c, m) = store[t][v].uses
      BY <3>2, <3>4, <3>5, <3>6, UsesStay DEF Uses
    <3>8. log'[c][i].depth + 1 = m
      <4>1. log'[c][i].depth = m - 1
        BY <3>1, <3>3 DEF Event, Depth
      <4> QED
        BY <4>1
    <3>9. \A d \in 1..Len(Uses(c, m)) : d < stack[c][m].next
      <4>1. PICK next \in Nat : next = stack[c][m].next
        BY <3>4 DEF FrameType
      <4>2. ~(next =< Len(Uses(c, m)))
        BY <3>2, <3>4, <4>1 DEF Pending, TopRow, Uses
      <4> QED
        BY <3>7, <4>1, <4>2
    <3>10. ASSUME NEW d \in 1..Len(Uses(c, m))
           PROVE  Fulfilled(log'[c], Uses(c, m)[d], t, m, i)
      <4>1. Fulfilled(log[c], Uses(c, m)[d], t, m, Len(log[c]) + 1)
        BY <3>2, <3>4, <3>5, <3>9 DEF Met
      <4>2. n + 1 \in Nat /\ n + 1 =< n + 1
        OBVIOUS
      <4> QED
        BY <2>2, <3>1, <4>1, <4>2, FulfilledForGood
    <3> QED
      BY <3>5, <3>6, <3>7, <3>8, <3>10, Zenon
  <2>5. i \in 1..n \/ i \in n + 1..Len(log'[c])
    BY <2>2
  <2> QED
    BY <2>3, <2>4, <2>5
<1>5. CASE UNCHANGED log
  BY <1>2, <1>5
<1> QED
  BY <1>2, <1>3, <1>4, <1>5, Zenon DEF Next, Moves, Publish, Review, Replicate, vars

(* The log can be read back as a tree: a success is preceded by one of     *)
(* each dependency its version declares, made for it and at the version it *)
(* pins.                                                                   *)
THEOREM LogIsATree == Spec => []SuccessHasDependencies
<1>1. Init => ReplicaFollows /\ VettedFrames /\ VettedLog
  BY DEF Init, ReplicaFollows, VettedFrames, VettedLog, Successes, Running
<1>2. Init => Pinned /\ Linked /\ Met /\ FulfilledLog
  BY DEF Init, Pinned, Linked, Met, FulfilledLog, Successes, Running
<1>3. ASSUME FulfilledLog PROVE SuccessHasDependencies
  <2>1. ASSUME NEW k \in Calls, NEW i \in Successes(k),
               NEW d \in 1..Len(store[log[k][i].tool][log[k][i].version].uses)
        PROVE  LET dep == store[log[k][i].tool][log[k][i].version].uses[d]
               IN  \E j \in Successes(k) :
                     /\ j < i
                     /\ log[k][j].tool = dep.tool
                     /\ log[k][j].via = {log[k][i].tool}
                     /\ log[k][j].depth = log[k][i].depth + 1
                     /\ dep.pin # 0 => log[k][j].version = dep.pin
    <3>1. PICK dep : dep = store[log[k][i].tool][log[k][i].version].uses[d]
      OBVIOUS
    <3>2. Fulfilled(log[k], dep, log[k][i].tool, log[k][i].depth + 1, i)
      BY <1>3, <2>1, <3>1, Zenon DEF FulfilledLog
    <3> QED
      BY <3>1, <3>2, Zenon DEF Fulfilled, Successes
  <2> QED
    BY <2>1 DEF SuccessHasDependencies
<1> QED
  BY <1>1, <1>2, <1>3, ReplicaFollowsStep, VettedFramesStep, VettedLogStep, PinnedStep,
     LinkedStep, MetStep, FulfilledLogStep, ExecutionTypes, PTL DEF Spec

-----------------------------------------------------------------------------
(* The log and the answer, when nothing throws.  Inner is the log of a     *)
(* call that still runs, Told that of a call that has answered.            *)
Inner(events) == \A i \in 1..Len(events) : events[i].depth # 0

Told(events, status) ==
  /\ status = 200 => events # <<>>
  /\ \A i \in 1..Len(events) : events[i].depth = 0 <=> i = Len(events)
  /\ events # <<>> => (events[Len(events)].outcome = "success" <=> status = 200)

LogFollows(k) ==
  /\ pc[k] = "idle" => log[k] = <<>>
  /\ pc[k] \in Running => Inner(log[k])
  /\ pc[k] = "failing" => reply[k] # 200
  /\ pc[k] = "done" => Told(log[k], reply[k])

(* Every status but success. *)
Failures == Codes \ {200}

LEMMA NothingUnwinds ==
  ASSUME "error" \notin Faults, NEW k, NEW written
  PROVE  ~Unwind(k, written)
BY DEF Unwind

LEMMA LogFollowsOn ==
  ASSUME NEW k \in Calls, LogFollows(k),
         pc'[k] = pc[k], log'[k] = log[k], reply'[k] = reply[k]
  PROVE  LogFollows(k)'
BY DEF LogFollows, Inner, Told

(* The root's own event is the last one; any other leaves the log inner.   *)
LEMMA RootCloses ==
  ASSUME NEW events \in Seq(EventType), NEW event \in EventType, NEW status \in Codes,
         Inner(events), event.outcome = "success" <=> status = 200
  PROVE  /\ event.depth = 0 => Told(Append(events, event), status)
         /\ event.depth # 0 => Inner(Append(events, event))
<1> DEFINE longer == Append(events, event)
<1>1. PICK n \in Nat : n = Len(events)
  BY LenProperties
<1>2. /\ Len(longer) = n + 1 /\ longer[n + 1] = event
      /\ \A i \in 1..n : longer[i] = events[i]
  BY <1>1, AppendGrows, LenProperties
<1>3. \A i \in 1..n : longer[i].depth # 0
  BY <1>1, <1>2 DEF Inner
<1>4. longer # <<>>
  <2>1. longer \in Seq(EventType) /\ n + 1 # 0
    BY <1>1
  <2> HIDE DEF longer
  <2> QED
    BY <1>2, <2>1, EmptySeq
<1> HIDE DEF longer
<1>5. \A i \in 1..n + 1 : i \in 1..n \/ i = n + 1
  BY <1>1
<1>6. n + 1 \notin 1..n
  BY <1>1
<1>7. ASSUME event.depth = 0 PROVE Told(longer, status)
  <2>1. \A i \in 1..Len(longer) : longer[i].depth = 0 <=> i = Len(longer)
    BY <1>2, <1>3, <1>5, <1>6, <1>7
  <2> QED
    BY <1>2, <1>4, <2>1 DEF Told
<1>8. ASSUME event.depth # 0 PROVE Inner(longer)
  BY <1>2, <1>3, <1>5, <1>8 DEF Inner
<1> QED
  BY <1>7, <1>8 DEF longer

(* A frame that fails tells so, and what it hands to its parent is not 200. *)
LEMMA FailTells ==
  ASSUME TypeOK, "error" \notin Faults, NEW k \in Calls, pc[k] \in Running, LogFollows(k),
         NEW status \in Failures, NEW version \in {0} \cup Versions,
         FailNaming(k, status, version)
  PROVE  LogFollows(k)'
<1>1. PICK event : event = Event(k, "error", version)
  OBVIOUS
<1>0. event.outcome = "error" /\ event.depth = Depth(k)
  BY <1>1 DEF Event
<1>2. event \in EventType /\ log[k] \in Seq(EventType)
  <2>1. event \in EventType
    BY <1>1, EventTyped
  <2> QED
    BY <2>1 DEF TypeOK
<1>3. /\ log' = [log EXCEPT ![k] = Append(log[k], event)]
      /\ pc' = [pc EXCEPT ![k] = IF Depth(k) = 0 THEN "done" ELSE "failing"]
      /\ reply' = [reply EXCEPT ![k] = status]
  BY <1>1, NothingUnwinds, Zenon DEF FailNaming
<1>4. /\ log'[k] = Append(log[k], event) /\ reply'[k] = status
      /\ pc'[k] = IF Depth(k) = 0 THEN "done" ELSE "failing"
  BY <1>3 DEF TypeOK
<1>5. /\ event.depth = 0 => Told(log'[k], reply'[k])
      /\ event.depth # 0 => Inner(log'[k])
  <2>1. Inner(log[k])
    BY DEF LogFollows
  <2>2. status \in Codes /\ (event.outcome = "success" <=> status = 200)
    BY <1>0 DEF Failures
  <2>3. /\ event.depth = 0 => Told(Append(log[k], event), status)
        /\ event.depth # 0 => Inner(Append(log[k], event))
    BY <1>2, <2>1, <2>2, RootCloses
  <2> QED
    BY <1>4, <2>3, Zenon
<1>9. reply'[k] # 200
  BY <1>4 DEF Failures
<1>6. CASE Depth(k) = 0
  BY <1>0, <1>4, <1>5, <1>6 DEF LogFollows, Told, Inner, Running
<1>7. CASE Depth(k) # 0
  BY <1>0, <1>4, <1>5, <1>7, <1>9 DEF LogFollows, Told, Inner, Running
<1> QED
  BY <1>6, <1>7

LEMMA RunTells ==
  ASSUME TypeOK, "error" \notin Faults, NEW k \in Calls, LogFollows(k), Run(k)
  PROVE  LogFollows(k)'
<1>1. pc[k] \in Running /\ pc[k] = "body"
  BY DEF Run, Running
<1>2. PICK event : event = Event(k, "success", Top(k).ver)
  OBVIOUS
<1>3. Top(k).ver \in {0} \cup Versions
  BY <1>1, FramesTyped DEF FrameType
<1>0. event.outcome = "success" /\ event.depth = Depth(k)
  BY <1>2 DEF Event
<1>4. /\ event \in EventType /\ log[k] \in Seq(EventType)
      /\ event.outcome = "success" /\ event.depth = Depth(k)
  BY <1>0, <1>1, <1>2, <1>3, EventTyped, Zenon DEF TypeOK
<1>9. 200 \in Codes
  BY DEF Codes
<1>5. Told(Append(log[k], event), 200) \/ event.depth # 0
  BY <1>1, <1>4, <1>9, RootCloses DEF LogFollows
<1>6. Inner(Append(log[k], event)) \/ event.depth = 0
  BY <1>1, <1>4, <1>9, RootCloses, Zenon DEF LogFollows
<1>7. CASE /\ Depth(k) = 0
           /\ log' = [log EXCEPT ![k] = Append(log[k], event)]
           /\ pc' = [pc EXCEPT ![k] = "done"]
           /\ reply' = [reply EXCEPT ![k] = 200]
  <2>1. log'[k] = Append(log[k], event) /\ pc'[k] = "done" /\ reply'[k] = 200
    BY <1>7 DEF TypeOK
  <2> QED
    BY <1>4, <1>5, <1>7, <2>1 DEF LogFollows, Told, Inner, Running
<1>8. CASE /\ Depth(k) > 0
           /\ log' = [log EXCEPT ![k] = Append(log[k], event)]
           /\ UNCHANGED <<pc, reply>>
  <2>1. log'[k] = Append(log[k], event) /\ pc'[k] = "body"
    BY <1>1, <1>8 DEF TypeOK
  <2>2. Depth(k) # 0
    BY <1>8
  <2> QED
    BY <1>4, <1>6, <2>1, <2>2 DEF LogFollows, Told, Inner, Running
<1> QED
  BY <1>2, <1>7, <1>8, NothingUnwinds, Zenon DEF Run

(* What fails, fails with a status of its own or with that of the frame    *)
(* below, which is not 200 either.                                         *)
LEMMA FailuresAreNot200 ==
  ASSUME TypeOK, NEW k \in Calls, LogFollows(k), Step(k)
  PROVE  \/ \E status \in Failures, version \in {0} \cup Versions :
              FailNaming(k, status, version)
         \/ Run(k) \/ Resolve(k) \/ Descend(k) \/ Gate(k)
<1> DEFINE Failed == \E status \in Failures, version \in {0} \cup Versions :
                       FailNaming(k, status, version)
<1>1. Top(k).pin \in {0} \cup Versions /\ Top(k).ver \in {0} \cup Versions
  BY StepCases, FramesTyped DEF FrameType
<1>2. {400, 403, 404, 409, 422, 502} \subseteq Failures
  BY DEF Codes, Failures
<1>8. 400 \in Failures /\ 403 \in Failures /\ 404 \in Failures /\ 409 \in Failures
  BY <1>2
<1>3. CASE RefuseChain(k) \/ ResolveNothing(k) \/ NoCode(k)
  BY <1>1, <1>8, <1>3, Zenon DEF RefuseChain, ResolveNothing, NoCode
<1>4. ASSUME NEW status \in Failures, Fail(k, status) PROVE Failed
  BY <1>1, <1>4, Zenon DEF Fail
<1>5. CASE GateRefuses(k) \/ BadInput(k)
  BY <1>8, <1>4, <1>5, Zenon DEF GateRefuses, BadInput
<1>6. CASE RunFails(k)
  <2>1. PICK status \in {422, 502} : Fail(k, status)
    BY <1>6, Zenon DEF RunFails
  <2>2. status \in Failures
    BY <1>2, <2>1
  <2> QED
    BY <1>4, <2>1, <2>2, Zenon
<1>7. CASE Propagate(k)
  <2>1. pc[k] = "failing" /\ Fail(k, reply[k])
    BY <1>7 DEF Propagate
  <2>2. reply[k] \in Failures
    BY <2>1 DEF LogFollows, TypeOK, Codes, Failures
  <2> QED
    BY <1>4, <2>1, <2>2, Zenon
<1> QED
  BY <1>3, <1>5, <1>6, <1>7, Zenon DEF Step

(* A call answers nobody's caller but its own. *)
LEMMA RepliesAlone ==
  ASSUME TypeOK, NEW k \in Calls, Moves(k), NEW c \in Calls, c # k
  PROVE  reply'[c] = reply[c]
<1>1. CASE \E t \in Tools, pin \in {0} \cup Versions : Begin(k, t, pin)
  BY <1>1 DEF Begin
<1>2. CASE TurnAway(k) \/ Crash(k)
  BY <1>2 DEF TurnAway, Crash, TypeOK
<1>3. CASE Throw(k)
  BY <1>3 DEF Throw, Unwind, TypeOK
<1>4. CASE Step(k)
  <2>1. CASE FailingStep(k)
    <3>1. Replied(k)
      BY <1>4, <2>1, StepCases, FailLogs, Zenon DEF FailingStep
    <3> QED
      BY <3>1 DEF Replied, TypeOK
  <2>2. CASE Run(k)
    <3>1. Replied(k)
      BY <2>2, RunShape
    <3> QED
      BY <3>1 DEF Replied, TypeOK
  <2>3. CASE Resolve(k) \/ Descend(k) \/ Gate(k)
    BY <2>3 DEF Resolve, Descend, Gate, Continue
  <2> QED
    BY <1>4, <2>1, <2>2, <2>3, StepCases
<1> QED
  BY <1>1, <1>2, <1>3, <1>4 DEF Moves

LEMMA LogFollowsStep ==
  ASSUME TypeOK, "error" \notin Faults, \A k \in Calls : LogFollows(k), [Next]_vars
  PROVE  \A k \in Calls : LogFollows(k)'
<1> SUFFICES ASSUME NEW c \in Calls PROVE LogFollows(c)'
  OBVIOUS
<1>1. LogFollows(c)
  OBVIOUS
<1>2. CASE UNCHANGED <<pc, log, reply>>
  BY <1>1, <1>2, LogFollowsOn
<1>3. ASSUME NEW k \in Calls, Moves(k), c # k PROVE LogFollows(c)'
  <2>1. pc'[c] = pc[c] /\ log'[c] = log[c]
    BY <1>3, MovesAlone
  <2>2. reply'[c] = reply[c]
    BY <1>3, RepliesAlone
  <2> QED
    BY <1>1, <2>1, <2>2, LogFollowsOn
<1>4. CASE Moves(c)
  <2>1. CASE \E t \in Tools, pin \in {0} \cup Versions : Begin(c, t, pin)
    <3>1. pc[c] = "idle" /\ pc'[c] = "resolve" /\ log'[c] = log[c]
      BY <2>1 DEF Begin, TypeOK
    <3>2. \A i \in 1..Len(<<>>) : FALSE
      OBVIOUS
    <3>3. log'[c] = <<>>
      BY <1>1, <3>1 DEF LogFollows
    <3>4. Inner(log'[c])
      BY <3>2, <3>3 DEF Inner
    <3> QED
      BY <3>1, <3>4 DEF LogFollows, Inner, Running
  <2>2. CASE TurnAway(c)
    <3>1. pc[c] = "idle" /\ pc'[c] = "done" /\ log'[c] = log[c] /\ reply'[c] # 200
      BY <2>2 DEF TurnAway, TypeOK
    <3>2. \A i \in 1..Len(<<>>) : FALSE
      OBVIOUS
    <3>3. log'[c] = <<>>
      BY <1>1, <3>1 DEF LogFollows
    <3> QED
      BY <3>1, <3>2, <3>3 DEF LogFollows, Told, Running
  <2>3. CASE Throw(c)
    BY <2>3, NothingUnwinds DEF Throw
  <2>4. CASE Crash(c)
    <3>1. pc'[c] = "dead"
      BY <2>4 DEF Crash, TypeOK
    <3> QED
      BY <3>1 DEF LogFollows, Running
  <2>5. CASE Step(c)
    <3>1. pc[c] \in Running
      BY <2>5, StepCases
    <3>2. ASSUME NEW status \in Failures, NEW version \in {0} \cup Versions,
                 FailNaming(c, status, version)
          PROVE  LogFollows(c)'
      BY <1>1, <3>1, <3>2, FailTells
    <3>3. CASE Run(c)
      BY <1>1, <3>3, RunTells
    <3>4. CASE Resolve(c) \/ Descend(c) \/ Gate(c)
      <4>1. /\ pc'[c] \in {"gate", "resolve", "body"}
            /\ log'[c] = log[c] /\ reply'[c] = reply[c]
        BY <3>4 DEF Resolve, Descend, Gate, Continue, TypeOK
      <4> QED
        BY <1>1, <3>1, <4>1 DEF LogFollows, Inner, Told, Running
    <3> QED
      BY <1>1, <2>5, <3>2, <3>3, <3>4, FailuresAreNot200, Zenon
  <2> QED
    BY <1>4, <2>1, <2>2, <2>3, <2>4, <2>5, Zenon DEF Moves
<1> QED
  BY <1>2, <1>3, <1>4, Zenon DEF Next, Moves, Publish, Review, Replicate, vars

(* A call that ran is answered and logged alike, when nothing throws: one  *)
(* root event, the last of all, a success exactly when the answer is 200,  *)
(* whatever fails at whatever depth and whenever the function is killed.   *)
THEOREM LogAndReplyAgree ==
  ASSUME "error" \notin Faults
  PROVE  Spec => []LogMatchesReply
<1>1. Init => \A k \in Calls : LogFollows(k)
  BY DEF Init, LogFollows, Running
<1>2. TypeOK /\ (\A k \in Calls : LogFollows(k)) /\ [Next]_vars
        => (\A k \in Calls : LogFollows(k))'
  BY LogFollowsStep
<1>3. (\A k \in Calls : LogFollows(k)) => LogMatchesReply
  BY DEF LogFollows, LogMatchesReply, Told
<1> QED
  BY <1>1, <1>2, <1>3, ExecutionTypes, PTL DEF Spec
-----------------------------------------------------------------------------
(* The cost of a call.  First the tree itself: the recursive function      *)
(* TreeSize exists, because a least depth at which it did not would be the *)
(* one after a depth at which it does.                                     *)
LEMMA LeastNumber ==
  ASSUME NEW S \in SUBSET Nat, S # {}
  PROVE  \E n \in S : \A m \in S : n =< m
<1> DEFINE R == OpToRel(<, Nat)
<1>1. IsWellFoundedOn(R, Nat)
  BY NatLessThanWellFounded
<1>2. \A x, y \in Nat : x < y => <<x, y>> \in R
  BY DEF OpToRel
<1> HIDE DEF R
<1>3. PICK n \in S : \A m \in S : ~(<<m, n>> \in R)
  BY <1>1, WFMin
<1>4. ASSUME NEW m \in S PROVE n =< m
  <2>1. m \in Nat /\ n \in Nat
    OBVIOUS
  <2>2. ~(m < n)
    BY <1>2, <1>3, <2>1, Zenon
  <2> QED
    BY <2>1, <2>2
<1> QED
  BY <1>4

(* The recursive definition of TreeSize has a solution, whatever MaxDepth  *)
(* is, and TreeSize is it.                                                 *)
Sizes(f, n) ==
  /\ f \in [0..n -> Nat]
  /\ \A d \in 0..n : f[d] = IF d = 0 THEN 0 ELSE 1 + MaxUses * f[d - 1]

LEMMA SizesExtend ==
  ASSUME NEW n \in Nat, NEW f, Sizes(f, n)
  PROVE  \E g : Sizes(g, n + 1)
<1> DEFINE g == [d \in 0..n + 1 |-> IF d \in 0..n THEN f[d] ELSE 1 + MaxUses * f[n]]
<1>1. f[n] \in Nat /\ 1 + MaxUses * f[n] \in Nat
  <2>1. n \in 0..n
    OBVIOUS
  <2> QED
    BY <2>1, DepthAssumption DEF Sizes
<1>2. g \in [0..n + 1 -> Nat]
  BY <1>1 DEF Sizes
<1>3. ASSUME NEW d \in 0..n + 1
      PROVE  g[d] = IF d = 0 THEN 0 ELSE 1 + MaxUses * g[d - 1]
  <2>1. CASE d = 0
    <3>1. 0 \in 0..n
      OBVIOUS
    <3> QED
      BY <2>1, <3>1 DEF Sizes
  <2>2. CASE d # 0 /\ d \in 0..n
    <3>1. d - 1 \in 0..n /\ d - 1 \in 0..n + 1 /\ d \in 0..n
      BY <2>2
    <3>2. f[d] = 1 + MaxUses * f[d - 1]
      BY <2>2, <3>1 DEF Sizes
    <3> QED
      BY <2>2, <3>1, <3>2
  <2>3. CASE d = n + 1
    <3>1. d \notin 0..n /\ d - 1 = n /\ n \in 0..n /\ n \in 0..n + 1 /\ d # 0
      BY <2>3
    <3> QED
      BY <2>3, <3>1
  <2> QED
    BY <2>1, <2>2, <2>3
<1> HIDE DEF g
<1> QED
  BY <1>2, <1>3 DEF Sizes

LEMMA SizesExist == \A n \in Nat : \E f : Sizes(f, n)
<1> DEFINE none == {n \in Nat : ~ \E f : Sizes(f, n)}
<1> SUFFICES ASSUME none # {} PROVE FALSE
  OBVIOUS
<1>1. PICK n \in none : \A m \in none : n =< m
  BY LeastNumber
<1>2. n # 0
  <2>1. Sizes([d \in 0..0 |-> 0], 0)
    BY DEF Sizes
  <2> QED
    BY <2>1
<1>3. n - 1 \in Nat /\ ~(n =< n - 1) /\ (n - 1) + 1 = n
  BY <1>2
<1>4. PICK f : Sizes(f, n - 1)
  BY <1>1, <1>3
<1>5. \E g : Sizes(g, n)
  BY <1>3, <1>4, SizesExtend
<1> QED
  BY <1>5

LEMMA TreeSizes == Sizes(TreeSize, MaxDepth)
<1> DEFINE tree(g) == g = [d \in 0..MaxDepth |-> IF d = 0 THEN 0 ELSE 1 + MaxUses * g[d - 1]]
<1>1. PICK f : Sizes(f, MaxDepth)
  BY SizesExist, DepthAssumption
<1>2. tree(f)
  BY <1>1 DEF Sizes
<1>3. TreeSize = CHOOSE g : tree(g)
  BY DEF TreeSize
<1>4. tree(CHOOSE g : tree(g))
  <2> HIDE DEF tree
  <2> QED
    BY <1>2, Zenon
<1>5. tree(TreeSize)
  <2> HIDE DEF tree, TreeSize
  <2> QED
    BY <1>3, <1>4, Zenon
<1> HIDE DEF TreeSize
<1>6. DOMAIN TreeSize = 0..MaxDepth
  BY <1>5
<1>7. \A d \in 0..MaxDepth : TreeSize[d] = IF d = 0 THEN 0 ELSE 1 + MaxUses * TreeSize[d - 1]
  BY <1>5
<1>8. \A d \in 0..MaxDepth : TreeSize[d] = f[d]
  <2> DEFINE wrong == {d \in 0..MaxDepth : TreeSize[d] # f[d]}
  <2> SUFFICES ASSUME wrong # {} PROVE FALSE
    OBVIOUS
  <2>1. wrong \in SUBSET Nat
    BY DepthAssumption
  <2>2. PICK d \in wrong : \A e \in wrong : d =< e
    BY <2>1, LeastNumber
  <2>3. d \in 0..MaxDepth /\ TreeSize[d] # f[d]
    BY <2>2
  <2>4. f[d] = IF d = 0 THEN 0 ELSE 1 + MaxUses * f[d - 1]
    BY <1>1, <2>3 DEF Sizes
  <2>5. TreeSize[d] = IF d = 0 THEN 0 ELSE 1 + MaxUses * TreeSize[d - 1]
    BY <1>7, <2>3
  <2>6. d # 0
    BY <2>3, <2>4, <2>5
  <2>7. d - 1 \in 0..MaxDepth /\ ~(d =< d - 1)
    BY <2>3, <2>6, DepthAssumption
  <2>8. TreeSize[d - 1] = f[d - 1]
    BY <2>2, <2>7
  <2> QED
    BY <2>3, <2>4, <2>5, <2>6, <2>8
<1>9. f \in [0..MaxDepth -> Nat]
  BY <1>1 DEF Sizes
<1>10. TreeSize \in [0..MaxDepth -> Nat]
  <2>1. TreeSize = [d \in 0..MaxDepth |-> TreeSize[d]]
    BY <1>5
  <2> QED
    BY <1>8, <1>9, <2>1
<1> QED
  BY <1>7, <1>10 DEF Sizes

(* What the frame at position i may cost, itself included. *)
Share(i) == TreeSize[MaxDepth - i + 1]

Spent(k) == Cardinality(Successes(k))

(* The frames of a call fit the tree: when the frame at position i was     *)
(* entered, at most base[i] runs had been made, which leaves room for what *)
(* it may cost, and the next frame came after fewer than MaxUses others.   *)
Room(frames, base) ==
  /\ Len(frames) \in 1..MaxDepth + 1
  /\ base \in [1..Len(frames) -> Nat]
  /\ \A i \in 1..Len(frames) : base[i] + Share(i) =< TreeSize[MaxDepth]
  /\ \A i \in 1..Len(frames) - 1 :
       /\ frames[i].next \in 1..MaxUses
       /\ base[i + 1] =< base[i] + (frames[i].next - 1) * Share(i + 1)

Entered(k, base) ==
  LET n == Len(stack[k])
  IN  IF pc[k] = "resolve"
      THEN stack[k][n].next = 1 /\ Spent(k) =< base[n]
      ELSE /\ n =< MaxDepth
           /\ stack[k][n].next \in 1..MaxUses + 1
           /\ Spent(k) =< base[n] + (stack[k][n].next - 1) * Share(n + 1)

Descending == {"resolve", "gate", "body"}

Budgeted(k) ==
  /\ Spent(k) =< TreeSize[MaxDepth]
  /\ pc[k] = "idle" => log[k] = <<>>
  /\ pc[k] \in Descending => \E base : Room(stack[k], base) /\ Entered(k, base)

Budget == \A k \in Calls : Budgeted(k)

(* What every row that is published declares. *)
FewUses == \A t \in Tools : \A v \in 1..Len(store[t]) : Len(store[t][v].uses) =< MaxUses

LEMMA Shares ==
  /\ \A i \in 1..MaxDepth + 1 : Share(i) \in Nat
  /\ \A i \in 1..MaxDepth : Share(i) = 1 + MaxUses * Share(i + 1)
  /\ Share(1) = TreeSize[MaxDepth]
  /\ TreeSize[MaxDepth] \in Nat
<1> HIDE DEF TreeSize
<1>1. /\ TreeSize \in [0..MaxDepth -> Nat]
      /\ \A d \in 0..MaxDepth : TreeSize[d] = IF d = 0 THEN 0 ELSE 1 + MaxUses * TreeSize[d - 1]
  BY TreeSizes DEF Sizes
<1>2. \A i \in 1..MaxDepth + 1 : MaxDepth - i + 1 \in 0..MaxDepth
  BY DepthAssumption
<1>3. \A i \in 1..MaxDepth :
        MaxDepth - i + 1 # 0 /\ (MaxDepth - i + 1) - 1 = MaxDepth - (i + 1) + 1
  BY DepthAssumption
<1>4. MaxDepth - 1 + 1 = MaxDepth /\ MaxDepth \in 0..MaxDepth
  BY DepthAssumption
<1>5. ASSUME NEW i \in 1..MaxDepth PROVE Share(i) = 1 + MaxUses * Share(i + 1)
  <2>1. i \in 1..MaxDepth + 1
    BY DepthAssumption
  <2>2. TreeSize[MaxDepth - i + 1] = 1 + MaxUses * TreeSize[(MaxDepth - i + 1) - 1]
    BY <1>1, <1>2, <1>3, <2>1, Zenon
  <2> QED
    BY <1>3, <2>2, Zenon DEF Share
<1> QED
  BY <1>1, <1>2, <1>4, <1>5 DEF Share

LEMMA Multiples ==
  /\ \A a, b, c \in Nat : a =< b => a * c =< b * c
  /\ \A a, c \in Nat : (a + 1) * c = a * c + c
  /\ \A a, c \in Nat : a * c \in Nat
<1>1. \A a, c \in Nat : a * c \in Nat
  OBVIOUS
<1>2. \A a, c \in Nat : (a + 1) * c = a * c + c
  OBVIOUS
<1>3. ASSUME NEW a \in Nat, NEW b \in Nat, NEW c \in Nat, a =< b PROVE a * c =< b * c
  <2>1. PICK d \in Nat : b = a + d
    <3>1. b - a \in Nat /\ b = a + (b - a)
      BY <1>3
    <3> QED
      BY <3>1
  <2>2. b * c = a * c + d * c
    BY <2>1
  <2>3. d * c \in Nat /\ a * c \in Nat
    BY <1>1
  <2> QED
    BY <2>2, <2>3
<1> QED
  BY <1>1, <1>2, <1>3

(* The running frame leaves room for another dependency, when it has one   *)
(* left, and for its own run, when it has none.                            *)
LEMMA RoomLeft ==
  ASSUME NEW frames, NEW base, Room(frames, base),
         NEW n \in Nat, n = Len(frames), n =< MaxDepth,
         NEW done \in Nat, done =< MaxUses
  PROVE  /\ base[n] + done * Share(n + 1) \in Nat
         /\ base[n] + done * Share(n + 1) + 1 =< base[n] + Share(n)
         /\ base[n] + Share(n) =< TreeSize[MaxDepth]
         /\ done < MaxUses => (base[n] + done * Share(n + 1)) + Share(n + 1) =< TreeSize[MaxDepth]
<1>1. n \in 1..n /\ n \in 1..MaxDepth /\ n \in 1..MaxDepth + 1 /\ n + 1 \in 1..MaxDepth + 1
  BY DepthAssumption DEF Room
<1>2. PICK w \in Nat : w = Share(n + 1)
  BY <1>1, Shares
<1>3. PICK W \in Nat : W = Share(n) /\ W = 1 + MaxUses * w
  BY <1>1, <1>2, Shares
<1>4. PICK b \in Nat : b = base[n]
  BY <1>1 DEF Room
<1>5. b + W =< TreeSize[MaxDepth]
  BY <1>1, <1>3, <1>4 DEF Room
<1>6. PICK T \in Nat : T = TreeSize[MaxDepth]
  BY Shares
<1>7. PICK spent \in Nat : spent = done * w /\ spent =< MaxUses * w
  <2>1. done * w \in Nat /\ done * w =< MaxUses * w
    BY Multiples, DepthAssumption
  <2> QED
    BY <2>1
<1>8. PICK all \in Nat : all = MaxUses * w
  BY Multiples, DepthAssumption
<1>9. done < MaxUses => spent + w =< all
  <2> SUFFICES ASSUME done < MaxUses PROVE spent + w =< all
    OBVIOUS
  <2>1. done + 1 \in Nat /\ done + 1 =< MaxUses
    BY DepthAssumption
  <2>2. (done + 1) * w =< MaxUses * w
    BY <2>1, Multiples, DepthAssumption
  <2>3. (done + 1) * w = spent + w
    BY <1>7, Multiples
  <2> QED
    BY <1>8, <2>2, <2>3
<1>10. /\ b + spent \in Nat
       /\ b + spent + 1 =< b + W
       /\ b + W =< T
       /\ done < MaxUses => (b + spent) + w =< T
  <2>1. W = 1 + all /\ spent =< all /\ b + W =< T
    BY <1>3, <1>5, <1>6, <1>7, <1>8
  <2> QED
    BY <1>9, <2>1
<1> QED
  BY <1>2, <1>3, <1>4, <1>6, <1>7, <1>10

LEMMA RoomPushes ==
  ASSUME NEW frames, NEW base, Room(frames, base),
         NEW n \in Nat, n = Len(frames), n =< MaxDepth, frames[n].next \in 1..MaxUses,
         NEW longer, Len(longer) = n + 1, \A i \in 1..n : longer[i] = frames[i]
  PROVE  \E more : /\ Room(longer, more)
                   /\ more[n + 1] = base[n] + (frames[n].next - 1) * Share(n + 1)
<1>1. PICK done \in Nat : done = frames[n].next - 1 /\ done < MaxUses /\ done =< MaxUses
  BY DepthAssumption
<1>2. PICK top \in Nat : top = base[n] + done * Share(n + 1) /\ top + Share(n + 1) =< TreeSize[MaxDepth]
  BY <1>1, RoomLeft
<1> DEFINE more == [i \in 1..n + 1 |-> IF i = n + 1 THEN top ELSE base[i]]
<1>3. /\ n \in 1..MaxDepth + 1
      /\ base \in [1..n -> Nat]
      /\ \A i \in 1..n : base[i] + Share(i) =< TreeSize[MaxDepth]
      /\ \A i \in 1..n - 1 : /\ frames[i].next \in 1..MaxUses
                              /\ base[i + 1] =< base[i] + (frames[i].next - 1) * Share(i + 1)
  BY DEF Room
<1>4. n + 1 \in 1..MaxDepth + 1
  BY DepthAssumption
<1>5. more \in [1..n + 1 -> Nat]
  BY <1>3
<1>6. \A i \in 1..n + 1 : i = n + 1 \/ (i \in 1..n /\ i # n + 1)
  OBVIOUS
<1>7. more[n + 1] = top /\ \A i \in 1..n : more[i] = base[i]
  OBVIOUS
<1> HIDE DEF more
<1>8. \A i \in 1..n + 1 : more[i] + Share(i) =< TreeSize[MaxDepth]
  BY <1>2, <1>3, <1>6, <1>7, Zenon
<1>9. ASSUME NEW i \in 1..n
      PROVE  /\ longer[i].next \in 1..MaxUses
             /\ more[i + 1] =< more[i] + (longer[i].next - 1) * Share(i + 1)
  <2>1. CASE i = n
    <3>1. top =< top
      OBVIOUS
    <3> QED
      BY <1>1, <1>2, <1>7, <2>1, <3>1
  <2>2. CASE i # n
    <3>1. i \in 1..n - 1 /\ i + 1 \in 1..n
      BY <2>2
    <3>2. /\ frames[i].next \in 1..MaxUses
          /\ base[i + 1] =< base[i] + (frames[i].next - 1) * Share(i + 1)
      BY <1>3, <3>1, Zenon
    <3> QED
      BY <1>7, <3>1, <3>2, Zenon
  <2> QED
    BY <2>1, <2>2
<1>10. (n + 1) - 1 = n
  OBVIOUS
<1>11. Room(longer, more)
  BY <1>4, <1>5, <1>8, <1>9, <1>10 DEF Room
<1> QED
  BY <1>1, <1>2, <1>7, <1>11

(* A frame that has run gives way to its parent, at the next dependency.   *)
LEMMA RoomPops ==
  ASSUME NEW frames, NEW base, Room(frames, base),
         NEW n \in Nat, n + 1 = Len(frames), n > 0,
         NEW shorter, Len(shorter) = n, \A i \in 1..n - 1 : shorter[i] = frames[i],
         shorter[n].next = frames[n].next + 1
  PROVE  \E less : /\ Room(shorter, less)
                   /\ n =< MaxDepth
                   /\ shorter[n].next \in 1..MaxUses + 1
                   /\ base[n + 1] + Share(n + 1) =< less[n] + (shorter[n].next - 1) * Share(n + 1)
<1> DEFINE less == [i \in 1..n |-> base[i]]
<1>1. /\ n + 1 \in 1..MaxDepth + 1 /\ n \in 1..MaxDepth + 1 /\ n =< MaxDepth /\ (n + 1) - 1 = n
      /\ n \in 1..n /\ n \in 1..n + 1 /\ n + 1 \in 1..n + 1
  BY DepthAssumption DEF Room
<1>2. /\ base \in [1..n + 1 -> Nat]
      /\ \A i \in 1..n + 1 : base[i] + Share(i) =< TreeSize[MaxDepth]
      /\ \A i \in 1..n : /\ frames[i].next \in 1..MaxUses
                          /\ base[i + 1] =< base[i] + (frames[i].next - 1) * Share(i + 1)
  BY <1>1 DEF Room
<1>3. less \in [1..n -> Nat] /\ \A i \in 1..n : less[i] = base[i]
  BY <1>2
<1> HIDE DEF less
<1>4. \A i \in 1..n : i \in 1..n + 1
  OBVIOUS
<1>5. \A i \in 1..n - 1 : i \in 1..n /\ i + 1 \in 1..n
  OBVIOUS
<1>6. Room(shorter, less)
  <2>1. \A i \in 1..n : less[i] + Share(i) =< TreeSize[MaxDepth]
    BY <1>2, <1>3, <1>4, Zenon
  <2>2. \A i \in 1..n - 1 : /\ shorter[i].next \in 1..MaxUses
                            /\ less[i + 1] =< less[i] + (shorter[i].next - 1) * Share(i + 1)
    BY <1>2, <1>3, <1>5, Zenon
  <2> QED
    BY <1>1, <1>3, <2>1, <2>2 DEF Room
<1>7. PICK done \in Nat : frames[n].next = done + 1 /\ done + 1 =< MaxUses
  <2>1. frames[n].next \in 1..MaxUses
    BY <1>1, <1>2
  <2>2. frames[n].next - 1 \in Nat /\ frames[n].next = (frames[n].next - 1) + 1
    BY <2>1
  <2> QED
    BY <2>1, <2>2, DepthAssumption
<1>8. PICK w \in Nat : w = Share(n + 1)
  BY <1>1, Shares
<1>9. /\ base[n] \in Nat /\ base[n + 1] \in Nat
      /\ base[n + 1] =< base[n] + done * w
  <2>1. base[n + 1] =< base[n] + ((done + 1) - 1) * w
    BY <1>1, <1>2, <1>7, <1>8
  <2>2. (done + 1) - 1 = done
    OBVIOUS
  <2> QED
    BY <1>1, <1>2, <2>1, <2>2
<1>10. base[n + 1] + w =< base[n] + (done + 1) * w
  <2>1. PICK spent \in Nat : spent = done * w /\ (done + 1) * w = spent + w
    BY Multiples
  <2> QED
    BY <1>9, <2>1
<1>11. shorter[n].next = done + 2 /\ (done + 2) - 1 = done + 1 /\ done + 2 \in 1..MaxUses + 1
  BY <1>7, DepthAssumption
<1> QED
  BY <1>1, <1>3, <1>6, <1>8, <1>10, <1>11

(* The table never holds more declarations than validateUses() lets in.    *)
LEMMA FewUsesInitially == Init => FewUses
BY SeededAssumption DEF Init, FewUses, ValidRow, ValidUses

LEMMA FewUsesStep ==
  ASSUME TypeOK, FewUses, [Next]_vars
  PROVE  FewUses'
<1>1. ASSUME NEW t \in Tools, Publish(t) PROVE FewUses'
  <2>1. PICK row \in Packages[t] : store' = [store EXCEPT ![t] = Append(@, row)]
    BY <1>1 DEF Publish
  <2>2. row \in Row /\ Len(row.uses) =< MaxUses
    BY <2>1, PackageAssumption DEF ValidRow, ValidUses
  <2>3. PICK old \in Seq(Row) : old = store[t]
    BY DEF TypeOK
  <2>4. PICK m \in Nat : m = Len(old)
    BY <2>3, LenProperties
  <2> DEFINE longer == Append(old, row)
  <2>5. Len(longer) = m + 1 /\ longer[m + 1] = row /\ \A v \in 1..m : longer[v] = old[v]
    BY <2>2, <2>4, AppendGrows
  <2>6. store' = [store EXCEPT ![t] = longer]
    BY <2>1, <2>3
  <2> HIDE DEF longer
  <2>7. \A v \in 1..m + 1 : v \in 1..m \/ v = m + 1
    OBVIOUS
  <2>8. \A v \in 1..Len(longer) : Len(longer[v].uses) =< MaxUses
    BY <2>2, <2>3, <2>4, <2>5, <2>7, Zenon DEF FewUses
  <2>9. store'[t] = longer /\ \A u \in Tools \ {t} : store'[u] = store[u]
    BY <2>6 DEF TypeOK
  <2> QED
    BY <2>8, <2>9, Zenon DEF FewUses
<1>2. ASSUME NEW k \in Calls, Moves(k) PROVE UNCHANGED store
  BY <1>2, MovesAlone DEF tables
<1>3. CASE UNCHANGED store
  BY <1>3 DEF FewUses
<1> QED
  BY <1>1, <1>2, <1>3, Zenon DEF Next, Moves, Review, Replicate, vars

(* A step writes down one success at most, and only when a tool has run.   *)
LEMMA SuccessesFinite ==
  ASSUME TypeOK, NEW k \in Calls
  PROVE  IsFiniteSet(Successes(k)) /\ Spent(k) \in Nat
<1>1. Len(log[k]) \in Nat
  BY LenProperties DEF TypeOK
<1>2. IsFiniteSet(1..Len(log[k]))
  BY <1>1, FS_Interval
<1>3. Successes(k) \subseteq 1..Len(log[k])
  BY DEF Successes
<1> QED
  BY <1>2, <1>3, FS_Subset, FS_CardinalityType DEF Spent

LEMMA SpentByRuns ==
  ASSUME TypeOK, TypeOK', NEW k \in Calls, Moves(k)
  PROVE  /\ Spent(k)' \in Nat
         /\ Spent(k)' =< Spent(k) + 1
         /\ ~Run(k) => Spent(k)' = Spent(k)
<1>1. PICK event : /\ GrowsBy(k, event)
                   /\ \/ event.outcome = "error"
                      \/ Run(k) /\ event = Event(k, "success", Top(k).ver)
  BY MovesLog
<1>2. PICK n \in Nat : n = Len(log[k])
  BY LenProperties DEF TypeOK
<1>3. PICK m \in Nat : m = Len(log'[k])
  BY LenProperties DEF TypeOK
<1>4. /\ n =< m
      /\ \A i \in 1..n : log'[k][i] = log[k][i]
      /\ \A i \in n + 1..m : \/ log'[k][i].outcome = "error"
                             \/ i = n + 1 /\ log'[k][i] = event
  BY <1>1, <1>2, <1>3 DEF GrowsBy
<1>5. \A i \in 1..m : i \in 1..n \/ i \in n + 1..m
  BY <1>4
<1>6. \A i \in 1..n : i \in 1..m
  BY <1>4
<1> DEFINE S == {i \in 1..n : log[k][i].outcome = "success"}
           R == {i \in 1..m : log'[k][i].outcome = "success"}
<1>7. S = Successes(k) /\ R = Successes(k)'
  BY <1>2, <1>3 DEF Successes
<1>8. IsFiniteSet(S) /\ IsFiniteSet(R)
  <2>1. IsFiniteSet(1..n) /\ IsFiniteSet(1..m)
    BY FS_Interval
  <2> QED
    BY <2>1, FS_Subset
<1>9. R \subseteq S \cup {n + 1}
  BY <1>4, <1>5
<1>10. ~Run(k) => R = S
  <2> SUFFICES ASSUME ~Run(k) PROVE R = S
    OBVIOUS
  <2>1. event.outcome = "error"
    BY <1>1
  <2> QED
    BY <1>4, <1>5, <1>6, <2>1
<1> HIDE DEF S, R
<1>11. Cardinality(R) =< Cardinality(S) + 1
  <2>1. /\ IsFiniteSet(S \cup {n + 1})
        /\ Cardinality(S \cup {n + 1}) = IF n + 1 \in S THEN Cardinality(S) ELSE Cardinality(S) + 1
    BY <1>8, FS_AddElement
  <2>2. Cardinality(R) =< Cardinality(S \cup {n + 1})
    BY <1>9, <2>1, FS_Subset
  <2>3. Cardinality(S) \in Nat /\ Cardinality(R) \in Nat
    BY <1>8, FS_CardinalityType
  <2> QED
    BY <2>1, <2>2, <2>3
<1> QED
  BY <1>7, <1>8, <1>10, <1>11, FS_CardinalityType DEF Spent

LEMMA BudgetBegins ==
  ASSUME TypeOK, TypeOK', Budget, NEW k \in Calls,
         NEW t \in Tools, NEW pin \in {0} \cup Versions, Begin(k, t, pin)
  PROVE  Budgeted(k)'
<1> DEFINE frames == <<Frame(t, pin)>>
           base   == [i \in 1..1 |-> 0]
<1>1. /\ pc[k] = "idle" /\ pc'[k] = "resolve" /\ stack'[k] = frames
      /\ log'[k] = log[k] /\ log[k] = <<>>
  BY DEF Begin, TypeOK, Budget, Budgeted
<1>2. Len(frames) = 1 /\ frames[1].next = 1
  BY DEF Frame
<1>3. Spent(k)' = 0
  <2>1. Successes(k)' = {}
    BY <1>1 DEF Successes
  <2> QED
    BY <2>1, FS_EmptySet DEF Spent
<1>4. base \in [1..1 -> Nat] /\ base[1] = 0 /\ \A i \in 1..1 : i = 1
  OBVIOUS
<1> HIDE DEF frames, base
<1>5. base[1] + Share(1) =< TreeSize[MaxDepth] /\ TreeSize[MaxDepth] \in Nat
  BY <1>4, Shares
<1>6. Room(frames, base)
  <2>1. 1 \in 1..MaxDepth + 1 /\ 1..1 - 1 = {}
    BY DepthAssumption
  <2>2. \A i \in 1..1 : base[i] + Share(i) =< TreeSize[MaxDepth]
    BY <1>4, <1>5
  <2> QED
    BY <1>2, <1>4, <2>1, <2>2 DEF Room
<1>7. Entered(k, base)'
  <2>1. stack'[k][Len(stack'[k])].next = 1 /\ base[Len(stack'[k])] = 0
    BY <1>1, <1>2, <1>4
  <2> QED
    BY <1>1, <1>3, <2>1 DEF Entered
<1>8. Spent(k)' =< TreeSize[MaxDepth] /\ pc'[k] # "idle"
  BY <1>1, <1>3, <1>5
<1> QED
  BY <1>1, <1>6, <1>7, <1>8 DEF Budgeted

LEMMA BudgetDescends ==
  ASSUME TypeOK, TypeOK', Resolution, FewUses, Budget, NEW k \in Calls, Descend(k)
  PROVE  \E base : (Room(stack[k], base) /\ Entered(k, base))'
<1>1. pc[k] = "body" /\ pc[k] \in Running /\ pc[k] \in Descending /\ pc'[k] = "resolve"
  BY DEF Descend, Continue, Running, Descending, TypeOK
<1>2. Moves(k) /\ ~Run(k)
  <2>1. Pending(k) /\ Step(k)
    BY DEF Descend, Step
  <2> QED
    BY <2>1 DEF Run, Moves
<1>3. Spent(k)' = Spent(k)
  BY <1>2, SpentByRuns
<1>4. PICK n \in Nat \ {0} : n = Len(stack[k])
  BY <1>1, FramesTyped
<1>5. PICK base : Room(stack[k], base) /\ Entered(k, base)
  BY <1>1 DEF Budget, Budgeted
<1>6. /\ n =< MaxDepth
      /\ Spent(k) =< base[n] + (stack[k][n].next - 1) * Share(n + 1)
  BY <1>1, <1>4, <1>5 DEF Entered
<1>7. /\ Len(stack'[k]) = n + 1
      /\ \A i \in 1..n : stack'[k][i] = stack[k][i]
      /\ stack'[k][n + 1] = Frame(TopRow(k).uses[Top(k).next].tool, TopRow(k).uses[Top(k).next].pin)
      /\ stack[k][n].next \in 1..Len(TopRow(k).uses)
  BY <1>4, DescendFrame, Zenon DEF Top
<1>8. Len(TopRow(k).uses) =< MaxUses /\ Len(TopRow(k).uses) \in Nat
  <2>1. Top(k) \in FrameType /\ Top(k).ver # 0
    BY <1>1, <1>4, FramesTyped DEF Top, Resolution, Settled
  <2>2. Top(k).ver \in 1..Len(store[Top(k).tool]) /\ TopRow(k) \in Row
    BY <1>1, <2>1, TopRowTyped
  <2>3. Top(k).tool \in Tools
    BY <2>1 DEF FrameType
  <2> QED
    BY <2>2, <2>3, LenProperties DEF FewUses, TopRow, Row
<1>9. stack[k][n].next \in 1..MaxUses
  BY <1>7, <1>8, DepthAssumption
<1>10. PICK more : /\ Room(stack'[k], more)
                  /\ more[n + 1] = base[n] + (stack[k][n].next - 1) * Share(n + 1)
  <2>1. PICK frames : frames = stack[k]
    OBVIOUS
  <2>2. PICK longer : longer = stack'[k]
    OBVIOUS
  <2>3. /\ Room(frames, base) /\ n \in Nat /\ n = Len(frames) /\ n =< MaxDepth
        /\ frames[n].next \in 1..MaxUses
        /\ Len(longer) = n + 1 /\ \A i \in 1..n : longer[i] = frames[i]
    BY <1>4, <1>5, <1>6, <1>7, <1>9, <2>1, <2>2
  <2>4. \E more : /\ Room(longer, more)
                  /\ more[n + 1] = base[n] + (frames[n].next - 1) * Share(n + 1)
    BY <2>3, RoomPushes
  <2> QED
    BY <2>1, <2>2, <2>4
<1>11. stack'[k][n + 1].next = 1
  BY <1>7 DEF Frame
<1>12. Entered(k, more)'
  BY <1>1, <1>3, <1>6, <1>7, <1>10, <1>11 DEF Entered
<1> QED
  BY <1>10, <1>12

LEMMA BudgetRuns ==
  ASSUME TypeOK, TypeOK', Resolution, Budget, NEW k \in Calls, Run(k)
  PROVE  /\ Spent(k)' =< TreeSize[MaxDepth]
         /\ pc'[k] \in Descending => \E base : (Room(stack[k], base) /\ Entered(k, base))'
<1>1. pc[k] = "body" /\ pc[k] \in Running /\ pc[k] \in Descending
  BY DEF Run, Running, Descending
<1>2. Moves(k)
  BY DEF Moves, Step
<1>3. PICK s \in Nat : s = Spent(k)
  BY SuccessesFinite
<1>4. PICK r \in Nat : r = Spent(k)'
  BY <1>2, SpentByRuns
<1>5. r =< s + 1
  BY <1>2, <1>3, <1>4, SpentByRuns
<1>6. PICK n \in Nat \ {0} : n = Len(stack[k])
  BY <1>1, FramesTyped
<1>7. PICK base : Room(stack[k], base) /\ Entered(k, base)
  BY <1>1 DEF Budget, Budgeted
<1>8. /\ n =< MaxDepth
      /\ stack[k][n].next \in 1..MaxUses + 1
      /\ s =< base[n] + (stack[k][n].next - 1) * Share(n + 1)
  BY <1>1, <1>3, <1>6, <1>7 DEF Entered
<1>9. PICK done \in Nat : done = stack[k][n].next - 1 /\ done =< MaxUses
  BY <1>8, DepthAssumption
<1>10. /\ base[n] + done * Share(n + 1) \in Nat
       /\ base[n] + done * Share(n + 1) + 1 =< base[n] + Share(n)
       /\ base[n] + Share(n) =< TreeSize[MaxDepth]
  BY <1>6, <1>7, <1>8, <1>9, RoomLeft
<1>11. PICK left \in Nat : left = base[n] + Share(n)
  <2>1. n \in 1..n /\ n \in 1..MaxDepth + 1
    BY <1>8, DepthAssumption
  <2>2. base[n] \in Nat /\ Share(n) \in Nat
    BY <1>6, <1>7, <2>1, Shares DEF Room
  <2> QED
    BY <2>2
<1>12. r =< left
  <2>1. PICK had \in Nat : had = base[n] + done * Share(n + 1)
    BY <1>10
  <2>2. s =< had /\ had + 1 =< left
    BY <1>8, <1>9, <1>10, <1>11, <2>1
  <2> QED
    BY <1>5, <2>2
<1>13. r =< TreeSize[MaxDepth]
  BY <1>10, <1>11, <1>12, Shares
<1>14. ASSUME pc'[k] \in Descending
       PROVE  \E less : (Room(stack[k], less) /\ Entered(k, less))'
  <2>1. Returned(k)
    <3>1. ASSUME Ended(k) PROVE FALSE
      BY <1>14, <3>1 DEF Ended, TypeOK, Descending
    <3> QED
      BY <3>1, RunShape
  <2>2. PICK m \in Nat : m + 1 = n /\ m > 0
    <3>1. n - 1 \in Nat /\ (n - 1) + 1 = n /\ n - 1 > 0
      BY <1>1, <1>6, <2>1, FramesTyped DEF Returned
    <3> QED
      BY <3>1
  <2>3. /\ Len(stack'[k]) = m
        /\ \A i \in 1..m : stack'[k][i] = IF i = m THEN [stack[k][i] EXCEPT !.next = @ + 1]
                                                   ELSE stack[k][i]
    <3>1. Len(stack'[k]) = m
      BY <1>1, <1>6, <2>1, <2>2, ReturnedFrames
    <3> QED
      BY <1>1, <2>1, <3>1, ReturnedFrames
  <2>4. stack[k][m] \in FrameType
    BY <1>1, <1>6, <2>2, FramesTyped
  <2>5. stack'[k][m].next = stack[k][m].next + 1
    <3>1. PICK f \in FrameType : f = stack[k][m]
      BY <2>4
    <3>2. m \in 1..m
      BY <2>2
    <3>3. stack'[k][m] = [f EXCEPT !.next = @ + 1]
      BY <2>3, <3>1, <3>2
    <3> QED
      BY <3>1, <3>3 DEF FrameType
  <2>6. \A i \in 1..m - 1 : stack'[k][i] = stack[k][i]
    <3>1. \A i \in 1..m - 1 : i \in 1..m /\ i # m
      OBVIOUS
    <3> QED
      BY <2>3, <3>1, Zenon
  <2>7. PICK less : /\ Room(stack'[k], less)
                    /\ m =< MaxDepth
                    /\ stack'[k][m].next \in 1..MaxUses + 1
                    /\ base[m + 1] + Share(m + 1) =< less[m] + (stack'[k][m].next - 1) * Share(m + 1)
    <3>1. PICK frames : frames = stack[k]
      OBVIOUS
    <3>2. PICK shorter : shorter = stack'[k]
      OBVIOUS
    <3>3. /\ Room(frames, base) /\ m \in Nat /\ m + 1 = Len(frames) /\ m > 0
          /\ Len(shorter) = m /\ \A i \in 1..m - 1 : shorter[i] = frames[i]
          /\ shorter[m].next = frames[m].next + 1
      BY <1>6, <1>7, <2>2, <2>3, <2>5, <2>6, <3>1, <3>2
    <3>4. \E less : /\ Room(shorter, less)
                    /\ m =< MaxDepth
                    /\ shorter[m].next \in 1..MaxUses + 1
                    /\ base[m + 1] + Share(m + 1) =< less[m] + (shorter[m].next - 1) * Share(m + 1)
      BY <3>3, RoomPops
    <3> QED
      BY <3>2, <3>4
  <2>8. pc'[k] = "body"
    BY <1>1, <2>1 DEF Returned
  <2>9. r =< less[m] + (stack'[k][m].next - 1) * Share(m + 1)
    <3>1. less[m] \in Nat /\ Share(m + 1) \in Nat
      <4>1. m \in 1..m /\ m + 1 \in 1..MaxDepth + 1
        BY <2>2, <2>7, DepthAssumption
      <4>2. less \in [1..m -> Nat]
        BY <2>3, <2>7 DEF Room
      <4> QED
        BY <4>1, <4>2, Shares
    <3>2. PICK next \in Nat : next = stack'[k][m].next - 1
      BY <2>7
    <3>3. less[m] + next * Share(m + 1) \in Nat
      BY <3>1, <3>2, Multiples
    <3>4. left =< less[m] + next * Share(m + 1)
      BY <1>11, <2>2, <2>7, <3>2
    <3> QED
      BY <1>12, <3>2, <3>3, <3>4
  <2>10. Entered(k, less)'
    BY <1>4, <2>3, <2>7, <2>8, <2>9 DEF Entered
  <2> QED
    BY <2>7, <2>10
<1> QED
  BY <1>4, <1>13, <1>14

LEMMA BudgetStep ==
  ASSUME TypeOK, TypeOK', Resolution, FewUses, Budget, [Next]_vars
  PROVE  Budget'
<1> SUFFICES ASSUME NEW k \in Calls PROVE Budgeted(k)'
  BY DEF Budget
<1>1. CASE UNCHANGED <<pc[k], stack[k], log[k]>>
  <2>1. Successes(k)' = Successes(k)
    BY <1>1 DEF Successes
  <2>2. Spent(k)' = Spent(k)
    BY <2>1 DEF Spent
  <2> QED
    BY <1>1, <2>2 DEF Budget, Budgeted, Entered
<1>2. ASSUME NEW c \in Calls, Moves(c), c # k PROVE UNCHANGED <<pc[k], stack[k], log[k]>>
  BY <1>2, MovesAlone
<1>3. ASSUME NEW t \in Tools, NEW pin \in {0} \cup Versions, Begin(k, t, pin) PROVE Budgeted(k)'
  BY <1>3, BudgetBegins
<1>4. ASSUME Moves(k), ~Run(k), pc'[k] # "idle",
             pc'[k] \in Descending => \E base : (Room(stack[k], base) /\ Entered(k, base))'
      PROVE  Budgeted(k)'
  <2>1. Spent(k)' = Spent(k)
    BY <1>4, SpentByRuns
  <2> QED
    BY <1>4, <2>1 DEF Budget, Budgeted
<1>5. CASE Run(k)
  <2>1. /\ Spent(k)' =< TreeSize[MaxDepth]
        /\ pc'[k] \in Descending => \E base : (Room(stack[k], base) /\ Entered(k, base))'
    BY <1>5, BudgetRuns
  <2>2. pc'[k] # "idle"
    BY <1>5 DEF Run, Unwind, TypeOK
  <2> QED
    BY <2>1, <2>2 DEF Budgeted
<1>6. CASE ~Run(k) /\ (TurnAway(k) \/ Crash(k) \/ Throw(k))
  <2>1. pc' = [pc EXCEPT ![k] = "done"] \/ pc' = [pc EXCEPT ![k] = "dead"]
    BY <1>6 DEF TurnAway, Crash, Throw, Unwind
  <2>2. pc'[k] # "idle" /\ pc'[k] \notin Descending
    BY <2>1 DEF TypeOK, Descending
  <2> QED
    BY <1>4, <1>6, <2>2 DEF Moves
<1>7. CASE ~Run(k) /\ Step(k)
  <2>1. pc[k] \in Running /\ Moves(k)
    BY <1>7, StepCases DEF Moves
  <2>2. CASE FailingStep(k)
    <3>1. Ended(k) \/ Popped(k)
      BY <2>1, <2>2, FailShape, Zenon DEF FailingStep
    <3>2. pc'[k] # "idle" /\ pc'[k] \notin Descending
      BY <3>1 DEF Ended, Popped, TypeOK, Descending
    <3> QED
      BY <1>4, <1>7, <2>1, <3>2
  <2>3. CASE Descend(k)
    <3>1. pc'[k] = "resolve"
      BY <2>3 DEF Descend, Continue, TypeOK
    <3> QED
      BY <1>4, <1>7, <2>1, <2>3, <3>1, BudgetDescends
  <2>4. CASE Resolve(k)
    <3>1. pc[k] = "resolve" /\ pc'[k] = "gate" /\ pc[k] \in Descending /\ ChainAllows(k)
      BY <2>4 DEF Resolve, Continue, TypeOK, Descending
    <3>2. PICK n \in Nat \ {0} : n = Len(stack[k]) /\ Depth(k) = n - 1
      BY <2>1, FramesTyped
    <3>3. n =< MaxDepth
      BY <3>1, <3>2, DepthAssumption DEF ChainAllows
    <3>4. /\ Len(stack'[k]) = n
          /\ \A i \in 1..n : stack'[k][i].next = stack[k][i].next
      BY <2>4, <3>2, ResolveFrames
    <3>5. PICK base : Room(stack[k], base) /\ Entered(k, base)
      BY <3>1 DEF Budget, Budgeted
    <3>6. stack[k][n].next = 1 /\ Spent(k) =< base[n]
      BY <3>1, <3>2, <3>5 DEF Entered
    <3>7. Room(stack'[k], base)
      <4>1. \A i \in 1..n - 1 : i \in 1..n
        OBVIOUS
      <4> QED
        BY <3>2, <3>4, <3>5, <4>1 DEF Room
    <3>8. Spent(k)' = Spent(k)
      BY <1>7, <2>1, SpentByRuns
    <3>9. Entered(k, base)'
      <4>1. stack'[k][n].next = 1 /\ 1 \in 1..MaxUses + 1
        BY <3>2, <3>4, <3>6, DepthAssumption
      <4>2. PICK w \in Nat : w = Share(n + 1)
        <5>1. n + 1 \in 1..MaxDepth + 1
          BY <3>3, DepthAssumption
        <5> QED
          BY <5>1, Shares
      <4>3. PICK b \in Nat : b = base[n]
        BY <3>2, <3>5 DEF Room
      <4>4. b + (1 - 1) * w = b
        OBVIOUS
      <4>5. Spent(k)' =< base[n] + (stack'[k][n].next - 1) * Share(n + 1)
        BY <3>6, <3>8, <4>1, <4>2, <4>3, <4>4
      <4> QED
        BY <3>1, <3>3, <3>4, <4>1, <4>5 DEF Entered
    <3> QED
      BY <1>4, <1>7, <2>1, <3>1, <3>7, <3>9
  <2>5. CASE Gate(k)
    <3>1. pc[k] = "gate" /\ pc'[k] = "body" /\ pc[k] \in Descending /\ UNCHANGED stack
      BY <2>5 DEF Gate, Continue, TypeOK, Descending
    <3>2. PICK base : Room(stack[k], base) /\ Entered(k, base)
      BY <3>1 DEF Budget, Budgeted
    <3>3. Spent(k)' = Spent(k)
      BY <1>7, <2>1, SpentByRuns
    <3>4. (Room(stack[k], base) /\ Entered(k, base))'
      BY <3>1, <3>2, <3>3 DEF Entered
    <3> QED
      BY <1>4, <1>7, <2>1, <3>1, <3>4
  <2> QED
    BY <1>7, <2>2, <2>3, <2>4, <2>5, StepCases
<1> QED
  BY <1>1, <1>2, <1>3, <1>5, <1>6, <1>7, Zenon
     DEF Next, Moves, Publish, Review, Replicate, vars

(* Depth and breadth bound what a call can cost: whatever the declarations *)
(* that are published, before it or while it runs, whatever fails, and     *)
(* however large MaxDepth and MaxUses are, one call runs the sandbox at    *)
(* most as often as the full tree of that depth and breadth has nodes.     *)
THEOREM OneCallIsBounded == Spec => []RunsBounded
<1>1. Init => Budget
  <2> SUFFICES ASSUME Init, NEW k \in Calls PROVE Budgeted(k)
    BY DEF Budget
  <2>1. pc[k] = "idle" /\ log[k] = <<>>
    BY DEF Init
  <2>2. Successes(k) = {}
    BY <2>1 DEF Successes
  <2>3. Spent(k) = 0
    BY <2>2, FS_EmptySet DEF Spent
  <2>4. 0 =< TreeSize[MaxDepth]
    BY Shares
  <2> QED
    BY <2>1, <2>3, <2>4 DEF Budgeted, Descending
<1>2. Budget => RunsBounded
  BY DEF Budget, Budgeted, Spent, RunsBounded
<1> QED
  BY <1>1, <1>2, FewUsesInitially, FewUsesStep, BudgetStep, ExecutionTypes, PTL DEF Spec
=============================================================================
