-------------------------- MODULE MessageLoggerProofs --------------------------
(***************************************************************************)
(* What the dispatcher guarantees for any threads, destinations and        *)
(* bounds.                                                                 *)
(***************************************************************************)
EXTENDS MessageLogger, FiniteSetTheorems, WellFoundedInduction, TLAPS

\* A call that logs another message is itself sending one, and the calls in
\* the critical section are the outermost mutex.depth calls of the owner.
InSection(t, k) == frame[t][k].pc \in {"send", "unlock"}
LockInv ==
    /\ \A t \in Threads, k \in 1 .. MaxDepth : k < depth[t] => frame[t][k].pc = "send"
    /\ \A t \in Threads, k \in 1 .. MaxDepth :
          k <= depth[t] => (InSection(t, k) <=> mutex.owner = t /\ k <= mutex.depth)
    /\ \A t \in Threads : mutex.owner = t => mutex.depth <= depth[t] /\ mutex.depth > 0
    /\ mutex.owner = NoThread => mutex.depth = 0

\* Once the facility was started there are destinations for good.
StartInv ==
    /\ isStarted => destinations # {}
    /\ \A t \in Threads, k \in 1 .. MaxDepth :
          frame[t][k].pc \notin {"none", "logErrorObj"} => destinations # {}

IInv == TypeOK /\ LockInv /\ StartInv /\ PurgeJustified

\* Before anything runs.
LEMMA InitIInv == Init => IInv
<1> SUFFICES ASSUME Init PROVE IInv
  OBVIOUS
<1> USE BoundsAssumption, IdsAssumption, NoThreadAssumption DEF Init
<1>1. TypeOK
  <2>1. GlobalsType
    <3>1. isStarted \in BOOLEAN /\ purgeMode \in BOOLEAN /\ exiting \in BOOLEAN
      BY Zenon
    <3>2. count \in Nat /\ destinations \in SUBSET Ids
      OBVIOUS
    <3>3. mutex \in [owner : Threads \cup {NoThread}, depth : 0 .. MaxDepth]
      OBVIOUS
    <3> QED
      BY <3>1, <3>2, <3>3 DEF GlobalsType
  <2>2. NoFrame \in Frame
    BY DEF Frame, NoFrame
  <2>3. CallsType
    BY <2>2 DEF CallsType
  <2>4. HistoryType
    <3>1. crashed \in BOOLEAN
      BY Zenon
    <3>2. created \in 0 .. MaxMsgs /\ elsewhere \in SUBSET Msgs /\ late \in Nat
      OBVIOUS
    <3>3. /\ parent \in [Msgs -> 0 .. MaxMsgs] /\ freed \in [Msgs -> Nat]
          /\ audience \in [Msgs -> SUBSET Ids] /\ failedAt \in [Msgs -> Ids \cup {0}]
      OBVIOUS
    <3>4. offered \in [Ids -> Seq(Msgs)]
      OBVIOUS
    <3> QED
      BY <3>1, <3>2, <3>3, <3>4 DEF HistoryType
  <2> QED
    BY <2>1, <2>3, <2>4 DEF TypeOK
<1>2. LockInv
  BY DEF LockInv
<1>3. StartInv
  BY DEF StartInv, NoFrame
<1>4. PurgeJustified
  BY DEF PurgeJustified
<1> QED
  BY <1>1, <1>2, <1>3, <1>4 DEF IInv

\* The innermost call of a busy thread.
LEMMA TopType ==
    ASSUME TypeOK, NEW t \in Threads, Busy(t)
    PROVE  /\ depth[t] \in 1 .. MaxDepth
           /\ Top(t) \in Frame /\ Top(t).pc \in PCs /\ Top(t).msg \in 1 .. created
           /\ Top(t).msg \in Msgs
           /\ Top(t) = frame[t][depth[t]]
BY BoundsAssumption DEF TypeOK, CallsType, HistoryType, Busy, Top, Msgs

Frames == [Threads -> [1 .. MaxDepth -> Frame]]

\* The innermost call going on changes no other call.
LEMMA BecomesType ==
    ASSUME TypeOK, NEW t \in Threads, Busy(t), NEW f \in Frame, Becomes(t, f)
    PROVE  /\ frame' \in Frames
           /\ frame'[t][depth[t]] = f
           /\ \A s \in Threads, k \in 1 .. MaxDepth :
                 s # t \/ k # depth[t] => frame'[s][k] = frame[s][k]
BY TopType DEF TypeOK, CallsType, Becomes, Frames

\* The innermost call returning removes it and changes no other call.
LEMMA ReturnType ==
    ASSUME TypeOK, NEW t \in Threads, Busy(t), Return(t)
    PROVE  /\ frame' \in Frames
           /\ depth' \in [Threads -> 0 .. MaxDepth]
           /\ depth'[t] = depth[t] - 1
           /\ \A s \in Threads : s # t => depth'[s] = depth[s]
           /\ frame'[t][depth[t]] = NoFrame
           /\ \A s \in Threads, k \in 1 .. MaxDepth :
                 s # t \/ k # depth[t] => frame'[s][k] = frame[s][k]
<1>1. NoFrame \in Frame
  BY DEF NoFrame, Frame
<1>2. /\ depth' \in [Threads -> 0 .. MaxDepth]
      /\ depth'[t] = depth[t] - 1
      /\ \A s \in Threads : s # t => depth'[s] = depth[s]
  BY TopType, BoundsAssumption DEF TypeOK, CallsType, Return
<1>3. /\ frame' \in Frames
      /\ frame'[t][depth[t]] = NoFrame
      /\ \A s \in Threads, k \in 1 .. MaxDepth :
            s # t \/ k # depth[t] => frame'[s][k] = frame[s][k]
  BY <1>1, TopType DEF TypeOK, CallsType, Return, Frames
<1> QED
  BY <1>1, <1>2, <1>3

\* The innermost call going on, with the same or another record of its state.
LEMMA BecomesCalls ==
    ASSUME TypeOK, NEW t \in Threads, Busy(t), NEW f \in Frame,
           f.pc \in PCs, f.msg = Top(t).msg, Becomes(t, f),
           depth' = depth, created' = created
    PROVE  CallsType'
<1>1. /\ frame' \in Frames
      /\ frame'[t][depth[t]] = f
      /\ \A s \in Threads, k \in 1 .. MaxDepth :
            s # t \/ k # depth[t] => frame'[s][k] = frame[s][k]
  BY BecomesType
<1>2. depth[t] \in 1 .. MaxDepth /\ Top(t).msg \in 1 .. created
  BY TopType
<1> QED
  BY <1>1, <1>2 DEF TypeOK, CallsType, Frames

\* The innermost call returning.
LEMMA ReturnCalls ==
    ASSUME TypeOK, NEW t \in Threads, Busy(t), Return(t), created' = created
    PROVE  CallsType'
<1>1. /\ frame' \in Frames
      /\ depth' \in [Threads -> 0 .. MaxDepth]
      /\ depth'[t] = depth[t] - 1
      /\ \A s \in Threads : s # t => depth'[s] = depth[s]
      /\ frame'[t][depth[t]] = NoFrame
      /\ \A s \in Threads, k \in 1 .. MaxDepth :
            s # t \/ k # depth[t] => frame'[s][k] = frame[s][k]
  BY ReturnType
<1>2. depth[t] \in 1 .. MaxDepth
  BY TopType
<1>3. ASSUME NEW s \in Threads, NEW k \in 1 .. MaxDepth
      PROVE  /\ k <= depth'[s] => frame'[s][k].pc \in PCs /\ frame'[s][k].msg \in 1 .. created'
             /\ k > depth'[s] => frame'[s][k] = NoFrame
  <2>1. CASE s # t
    BY <1>1, <2>1 DEF TypeOK, CallsType
  <2>2. CASE s = t /\ k # depth[t]
    <3>1. frame'[s][k] = frame[s][k]
      BY <1>1, <2>2
    <3>2. k <= depth'[s] => k <= depth[s]
      BY <1>1, <1>2, <2>2
    <3>3. k > depth'[s] => k > depth[s]
      BY <1>1, <1>2, <2>2
    <3> QED
      BY <3>1, <3>2, <3>3 DEF TypeOK, CallsType
  <2>3. CASE s = t /\ k = depth[t]
    BY <1>1, <1>2, <2>3
  <2> QED
    BY <2>1, <2>2, <2>3
<1> QED
  BY <1>1, <1>3 DEF CallsType, Frames

\* Top(t) with another place in the code, or another destination reached.
LEMMA NextFrameType ==
    ASSUME TypeOK, NEW t \in Threads, Busy(t), NEW i \in Ids, NEW pc \in PCs
    PROVE  /\ [Top(t) EXCEPT !.pc = pc] \in Frame
           /\ [Top(t) EXCEPT !.pc = pc].pc = pc
           /\ [Top(t) EXCEPT !.pc = pc].msg = Top(t).msg
           /\ [Top(t) EXCEPT !.last = i, !.nested = FALSE] \in Frame
           /\ [Top(t) EXCEPT !.last = i, !.nested = FALSE].pc = Top(t).pc
           /\ [Top(t) EXCEPT !.last = i, !.nested = FALSE].msg = Top(t).msg
           /\ [Top(t) EXCEPT !.pc = pc, !.last = i, !.nested = FALSE] \in Frame
           /\ [Top(t) EXCEPT !.pc = pc, !.last = i, !.nested = FALSE].pc = pc
           /\ [Top(t) EXCEPT !.pc = pc, !.last = i, !.nested = FALSE].msg = Top(t).msg
BY TopType DEF Frame

\* A fresh call of LogErrorObj with message m.
Fresh(m) == [NoFrame EXCEPT !.pc = "logErrorObj", !.msg = m]
\* ... is a proper one.
LEMMA FreshType ==
    ASSUME NEW m \in Msgs
    PROVE  Fresh(m) \in Frame /\ Fresh(m).pc = "logErrorObj" /\ Fresh(m).msg = m
BY DEF Fresh, NoFrame, Frame, PCs

\* What releasing a message does to the calls.
LEMMA ReleaseFrames ==
    ASSUME TypeOK, NEW t \in Threads, Release(t)
    PROVE  /\ created + 1 \in Msgs /\ depth[t] = 0
           /\ depth' \in [Threads -> 0 .. MaxDepth] /\ depth'[t] = 1
           /\ \A s \in Threads : s # t => depth'[s] = depth[s]
           /\ frame' \in Frames
           /\ frame'[t][1] = Fresh(created + 1)
           /\ \A s \in Threads, k \in 1 .. MaxDepth :
                 s # t \/ k # 1 => frame'[s][k] = frame[s][k]
<1>1. created + 1 \in Msgs /\ depth[t] = 0
  BY BoundsAssumption DEF Release, Busy, TypeOK, HistoryType, CallsType, Msgs
<1>2. /\ depth' = [depth EXCEPT ![t] = 1]
      /\ frame' = [frame EXCEPT ![t][1] = Fresh(created + 1)]
  BY DEF Release, Fresh
<1>3. Fresh(created + 1) \in Frame
  BY <1>1, FreshType
<1>4. frame \in Frames /\ 1 \in 1 .. MaxDepth
  BY BoundsAssumption DEF TypeOK, CallsType, Frames
<1>5. /\ frame' \in Frames /\ frame'[t][1] = Fresh(created + 1)
      /\ \A s \in Threads, k \in 1 .. MaxDepth :
            s # t \/ k # 1 => frame'[s][k] = frame[s][k]
  BY <1>2, <1>3, <1>4 DEF Frames
<1>6. /\ depth' \in [Threads -> 0 .. MaxDepth] /\ depth'[t] = 1
      /\ \A s \in Threads : s # t => depth'[s] = depth[s]
  BY <1>2, BoundsAssumption DEF TypeOK, CallsType
<1> QED
  BY <1>1, <1>5, <1>6

\* What a destination that logs a message does to the calls.
LEMMA ReenterFrames ==
    ASSUME TypeOK, NEW t \in Threads, NEW i \in Ids, LogReenters(t, i)
    PROVE  /\ created + 1 \in Msgs /\ depth[t] \in 1 .. MaxDepth - 1
           /\ depth' \in [Threads -> 0 .. MaxDepth] /\ depth'[t] = depth[t] + 1
           /\ \A s \in Threads : s # t => depth'[s] = depth[s]
           /\ frame' \in Frames
           /\ frame'[t][depth[t] + 1] = Fresh(created + 1)
           /\ frame'[t][depth[t]] = [Top(t) EXCEPT !.nested = TRUE]
           /\ frame'[t][depth[t]].pc = "send" /\ frame'[t][depth[t]].msg = Top(t).msg
           /\ \A s \in Threads, k \in 1 .. MaxDepth :
                 s # t \/ k \notin {depth[t], depth[t] + 1} => frame'[s][k] = frame[s][k]
<1>1. created + 1 \in Msgs /\ depth[t] \in 1 .. MaxDepth - 1 /\ Busy(t)
  BY BoundsAssumption DEF LogReenters, At, Busy, TypeOK, HistoryType, CallsType, Msgs
<1>2. /\ depth' = [depth EXCEPT ![t] = @ + 1]
      /\ frame' = [frame EXCEPT ![t][depth[t]] = [@ EXCEPT !.nested = TRUE],
                                ![t][depth[t] + 1] = Fresh(created + 1)]
  BY DEF LogReenters, Fresh
<1>3. Fresh(created + 1) \in Frame
  BY <1>1, FreshType
<1>4. /\ Top(t) \in Frame /\ Top(t) = frame[t][depth[t]]
      /\ Top(t).pc = "send"
  BY <1>1, TopType DEF LogReenters, At
<1>5. /\ [Top(t) EXCEPT !.nested = TRUE] \in Frame
      /\ [Top(t) EXCEPT !.nested = TRUE].pc = "send"
      /\ [Top(t) EXCEPT !.nested = TRUE].msg = Top(t).msg
  BY <1>4 DEF Frame
<1>6. /\ depth' \in [Threads -> 0 .. MaxDepth] /\ depth'[t] = depth[t] + 1
      /\ \A s \in Threads : s # t => depth'[s] = depth[s]
  BY <1>1, <1>2, BoundsAssumption DEF TypeOK, CallsType
<1> DEFINE g == [frame EXCEPT ![t][depth[t]] = [Top(t) EXCEPT !.nested = TRUE]]
<1>7. frame \in Frames /\ depth[t] \in 1 .. MaxDepth /\ depth[t] + 1 \in 1 .. MaxDepth
  BY <1>1, BoundsAssumption DEF TypeOK, CallsType, Frames
<1>8. /\ g \in Frames
      /\ g[t][depth[t]] = [Top(t) EXCEPT !.nested = TRUE]
      /\ \A s \in Threads, k \in 1 .. MaxDepth :
            s # t \/ k # depth[t] => g[s][k] = frame[s][k]
  BY <1>5, <1>7 DEF Frames
<1>9. frame' = [g EXCEPT ![t][depth[t] + 1] = Fresh(created + 1)]
  BY <1>2, <1>4
<1> HIDE DEF g
<1>10. /\ frame' \in Frames
       /\ frame'[t][depth[t] + 1] = Fresh(created + 1)
       /\ \A s \in Threads, k \in 1 .. MaxDepth :
             s # t \/ k # depth[t] + 1 => frame'[s][k] = g[s][k]
  BY <1>3, <1>7, <1>8, <1>9 DEF Frames
<1>11. frame'[t][depth[t]] = g[t][depth[t]]
  BY <1>7, <1>10
<1>12. \A s \in Threads, k \in 1 .. MaxDepth :
          s # t \/ k \notin {depth[t], depth[t] + 1} => frame'[s][k] = frame[s][k]
  BY <1>8, <1>10
<1> QED
  BY <1>1, <1>5, <1>6, <1>8, <1>10, <1>11, <1>12

--------------------------------------------------------------------------------
(***************************************************************************)
(* Type correctness.                                                       *)
(***************************************************************************)
\* A thread that gets the mutex holds it for each call above the innermost.
LEMMA LockDepth ==
    ASSUME TypeOK, LockInv, NEW t \in Threads, At(t, "lock"), mutex.owner \in {NoThread, t}
    PROVE  mutex.depth = depth[t] - 1
<1>1. depth[t] \in 1 .. MaxDepth /\ frame[t][depth[t]].pc = "lock"
  BY TopType DEF At
<1>2. mutex.depth \in 0 .. MaxDepth
  BY DEF TypeOK, GlobalsType
<1>3. ~(mutex.owner = t /\ depth[t] <= mutex.depth)
  BY <1>1 DEF LockInv, InSection
<1>4. \A k \in 1 .. MaxDepth : k < depth[t] => mutex.owner = t /\ k <= mutex.depth
  BY <1>1 DEF LockInv, InSection
<1>5. CASE mutex.owner = t
  <2>1. mutex.depth < depth[t]
    BY <1>1, <1>2, <1>3, <1>5
  <2>2. depth[t] - 1 \in 1 .. MaxDepth => depth[t] - 1 <= mutex.depth
    BY <1>1, <1>4, BoundsAssumption
  <2> QED
    BY <1>1, <1>2, <2>1, <2>2, BoundsAssumption
<1>6. CASE mutex.owner = NoThread
  <2>1. t # NoThread /\ mutex.depth = 0
    BY <1>6, NoThreadAssumption DEF LockInv
  <2>2. ~(1 < depth[t])
    BY <1>1, <1>4, <1>6, <2>1, BoundsAssumption
  <2> QED
    BY <1>1, <2>1, <2>2
<1> QED
  BY <1>5, <1>6

\* Every step keeps the types; Acquire does because of LockInv.
LEMMA NextType ==
    ASSUME TypeOK, LockInv, [Next]_vars
    PROVE  TypeOK'
<1> USE BoundsAssumption, IdsAssumption
<1>1. ASSUME NEW t \in Threads, Release(t) PROVE TypeOK'
  <2>1. GlobalsType' 
    BY <1>1, Zenon DEF TypeOK, GlobalsType, Release, globals
  <2>2. HistoryType'
    <3>1. created' \in 0 .. MaxMsgs
      BY <1>1 DEF TypeOK, HistoryType, Release
    <3> QED
      BY <1>1, <3>1, Zenon DEF TypeOK, HistoryType, Release
  <2>3. CallsType'
    <3>1. Fresh(created + 1) \in Frame /\ Fresh(created + 1).pc \in PCs
          /\ Fresh(created + 1).msg = created + 1 /\ created' = created + 1
          /\ created \in Nat
      <4>1. created' = created + 1 /\ created \in Nat
        BY <1>1 DEF Release, TypeOK, HistoryType
      <4>2. created + 1 \in Msgs
        BY <1>1, ReleaseFrames
      <4> QED
        BY <4>1, <4>2, FreshType DEF PCs
    <3>2. ASSUME NEW s \in Threads, NEW k \in 1 .. MaxDepth
          PROVE  /\ k <= depth'[s] => frame'[s][k].pc \in PCs /\ frame'[s][k].msg \in 1 .. created'
                 /\ k > depth'[s] => frame'[s][k] = NoFrame
      <4>1. CASE s = t /\ k = 1
        BY <1>1, <3>1, <4>1, ReleaseFrames
      <4>2. CASE ~(s = t /\ k = 1)
        <5>1. frame'[s][k] = frame[s][k]
          BY <1>1, <4>2, ReleaseFrames
        <5>2. (k <= depth'[s] <=> k <= depth[s]) /\ (k > depth'[s] <=> k > depth[s])
          BY <1>1, <4>2, ReleaseFrames DEF TypeOK, CallsType
        <5> QED
          BY <3>1, <5>1, <5>2 DEF TypeOK, CallsType
      <4> QED
        BY <4>1, <4>2
    <3> QED
      BY <1>1, <3>2, ReleaseFrames DEF CallsType, Frames
  <2> QED
    BY <2>1, <2>2, <2>3 DEF TypeOK
<1>2. ASSUME NEW t \in Threads, LogErrorObj(t) PROVE TypeOK'
  <2>1. GlobalsType'
    BY <1>2, Zenon DEF TypeOK, GlobalsType, LogErrorObj, globals
  <2>2. Busy(t) /\ Top(t).msg \in Msgs
    BY <1>2, TopType DEF LogErrorObj, At
  <2>3. freed' \in [Msgs -> Nat] /\ elsewhere' \in SUBSET Msgs
    BY <1>2, <2>2 DEF TypeOK, HistoryType, LogErrorObj, Delete
  <2>4. HistoryType'
    BY <1>2, <2>3, Zenon DEF TypeOK, HistoryType, LogErrorObj
  <2>5. CallsType'
    <3>1. CASE isStarted
      <4>1. "logMessage" \in PCs
        BY DEF PCs
      <4>2. Becomes(t, [Top(t) EXCEPT !.pc = "logMessage"]) /\ depth' = depth /\ created' = created
        BY <1>2, <3>1, Zenon DEF LogErrorObj
      <4> QED
        BY <2>2, <4>1, <4>2, NextFrameType, BecomesCalls
    <3>2. CASE ~isStarted
      BY <1>2, <2>2, <3>2, ReturnCalls DEF LogErrorObj
    <3> QED
      BY <3>1, <3>2
  <2> QED
    BY <2>1, <2>4, <2>5 DEF TypeOK
<1>3. ASSUME NEW t \in Threads, CheckPurgeMode(t) PROVE TypeOK'
  <2>1. GlobalsType'
    BY <1>3, Zenon DEF TypeOK, GlobalsType, CheckPurgeMode, globals
  <2>2. Busy(t) /\ Top(t).msg \in Msgs
    BY <1>3, TopType DEF CheckPurgeMode, At
  <2>3. freed' \in [Msgs -> Nat] /\ elsewhere' \in SUBSET Msgs
    <3>1. freed \in [Msgs -> Nat] /\ elsewhere \in SUBSET Msgs
      BY DEF TypeOK, HistoryType
    <3>2. CASE purgeMode
      BY <1>3, <2>2, <3>1, <3>2 DEF CheckPurgeMode, Delete
    <3>3. CASE ~purgeMode
      BY <1>3, <3>1, <3>3 DEF CheckPurgeMode
    <3> QED
      BY <3>2, <3>3
  <2>4. HistoryType'
    BY <1>3, <2>3, Zenon DEF TypeOK, HistoryType, CheckPurgeMode
  <2>5. CallsType'
    <3>1. CASE purgeMode
      BY <1>3, <2>2, <3>1, ReturnCalls DEF CheckPurgeMode
    <3>2. CASE ~purgeMode
      <4>1. "lock" \in PCs
        BY DEF PCs
      <4>2. Becomes(t, [Top(t) EXCEPT !.pc = "lock"]) /\ depth' = depth /\ created' = created
        BY <1>3, <3>2, Zenon DEF CheckPurgeMode
      <4> QED
        BY <2>2, <4>1, <4>2, NextFrameType, BecomesCalls
    <3> QED
      BY <3>1, <3>2
  <2> QED
    BY <2>1, <2>4, <2>5 DEF TypeOK
<1>4. ASSUME NEW t \in Threads, Acquire(t) PROVE TypeOK'
  <2>1. Busy(t) /\ Top(t).msg \in Msgs /\ depth[t] \in 1 .. MaxDepth
    BY <1>4, TopType DEF Acquire, At
  <2>2. GlobalsType'
    <3>1. mutex.depth = depth[t] - 1 /\ mutex' = [owner |-> t, depth |-> mutex.depth + 1]
      BY <1>4, LockDepth DEF Acquire, Lock, MayLock
    <3>2. mutex' \in [owner : Threads \cup {NoThread}, depth : 0 .. MaxDepth]
      BY <2>1, <3>1
    <3>3. destinations' \in SUBSET Ids
      BY <1>4 DEF Acquire, TypeOK, GlobalsType
    <3> QED
      BY <1>4, <3>2, <3>3, Zenon DEF TypeOK, GlobalsType, Acquire
  <2>3. HistoryType'
    <3>1. audience' \in [Msgs -> SUBSET Ids] /\ late' \in Nat
      BY <1>4, <2>1, <2>2, SMTT(30) DEF TypeOK, GlobalsType, HistoryType, Acquire
    <3> QED
      BY <1>4, <3>1, Zenon DEF TypeOK, HistoryType, Acquire
  <2>4. CallsType'
    <3>1. "send" \in PCs
      BY DEF PCs
    <3>2. Becomes(t, [Top(t) EXCEPT !.pc = "send"]) /\ depth' = depth /\ created' = created
      BY <1>4 DEF Acquire
    <3> QED
      BY <2>1, <3>1, <3>2, NextFrameType, BecomesCalls
  <2> QED
    BY <2>2, <2>3, <2>4 DEF TypeOK
<1>5. ASSUME NEW t \in Threads, NEW i \in Ids, Busy(t), Entered(Top(t), i)
      PROVE  offered' \in [Ids -> Seq(Msgs)]
  <2>1. Top(t).msg \in Msgs /\ offered \in [Ids -> Seq(Msgs)]
    BY <1>5, TopType DEF TypeOK, HistoryType
  <2> QED
    BY <1>5, <2>1 DEF Entered
<1>6. ASSUME NEW t \in Threads, NEW i \in Ids, LogReturns(t, i) PROVE TypeOK'
  <2>1. Busy(t)
    BY <1>6 DEF LogReturns, At
  <2>2. GlobalsType'
    BY <1>6, Zenon DEF TypeOK, GlobalsType, LogReturns, globals
  <2>3. offered' \in [Ids -> Seq(Msgs)]
    BY <1>5, <1>6, <2>1 DEF LogReturns
  <2>4. HistoryType'
    BY <1>6, <2>3, Zenon DEF TypeOK, HistoryType, LogReturns
  <2>5. CallsType'
    <3>1. Becomes(t, [Top(t) EXCEPT !.last = i, !.nested = FALSE]) /\ depth' = depth /\ created' = created
      BY <1>6 DEF LogReturns
    <3>2. Top(t).pc \in PCs
      BY <2>1, TopType
    <3> QED
      BY <2>1, <3>1, <3>2, NextFrameType, BecomesCalls
  <2> QED
    BY <2>2, <2>4, <2>5 DEF TypeOK
<1>7. ASSUME NEW t \in Threads, NEW i \in Ids, LogReenters(t, i) PROVE TypeOK'
  <2>1. Busy(t) /\ Top(t).msg \in 1 .. created /\ created + 1 \in Msgs
        /\ depth[t] \in 1 .. MaxDepth - 1
    BY <1>7, TopType, ReenterFrames DEF LogReenters, At
  <2>2. GlobalsType'
    BY <1>7, Zenon DEF TypeOK, GlobalsType, LogReenters, globals
  <2>3. HistoryType'
    <3>1. offered' \in [Ids -> Seq(Msgs)]
      BY <1>5, <1>7, <2>1 DEF LogReenters
    <3>2. created' = created + 1 /\ created' \in 0 .. MaxMsgs
      BY <1>7, <2>1 DEF LogReenters, Msgs
    <3>3. parent' \in [Msgs -> 0 .. MaxMsgs]
      BY <1>7, <2>1, SMTT(30) DEF LogReenters, TypeOK, HistoryType, Msgs
    <3> QED
      BY <1>7, <3>1, <3>2, <3>3, Zenon DEF TypeOK, HistoryType, LogReenters
  <2>4. CallsType'
    <3>1. /\ Fresh(created + 1).pc \in PCs /\ Fresh(created + 1).msg = created + 1
          /\ created' = created + 1 /\ created \in Nat /\ "send" \in PCs
      BY <1>7, <2>1, FreshType, SMTT(30) DEF PCs, LogReenters, TypeOK, HistoryType
    <3>2. /\ depth' \in [Threads -> 0 .. MaxDepth] /\ depth'[t] = depth[t] + 1
          /\ \A s \in Threads : s # t => depth'[s] = depth[s]
      BY <1>7, ReenterFrames
    <3>3. /\ frame'[t][depth[t] + 1] = Fresh(created + 1)
          /\ frame'[t][depth[t]].pc = "send" /\ frame'[t][depth[t]].msg = Top(t).msg
          /\ \A s \in Threads, k \in 1 .. MaxDepth :
                s # t \/ k \notin {depth[t], depth[t] + 1} => frame'[s][k] = frame[s][k]
      BY <1>7, ReenterFrames
    <3>4. ASSUME NEW s \in Threads, NEW k \in 1 .. MaxDepth
          PROVE  /\ k <= depth'[s] => frame'[s][k].pc \in PCs /\ frame'[s][k].msg \in 1 .. created'
                 /\ k > depth'[s] => frame'[s][k] = NoFrame
      <4>1. CASE s = t /\ k = depth[t]
        BY <2>1, <3>1, <3>2, <3>3, <4>1
      <4>2. CASE s = t /\ k = depth[t] + 1
        BY <2>1, <3>1, <3>2, <3>3, <4>2
      <4>3. CASE s # t \/ k \notin {depth[t], depth[t] + 1}
        <5>1. frame'[s][k] = frame[s][k]
          BY <3>3, <4>3
        <5>2. depth[s] \in Nat
          BY DEF TypeOK, CallsType
        <5>3. (k <= depth'[s] <=> k <= depth[s]) /\ (k > depth'[s] <=> k > depth[s])
          BY <2>1, <3>2, <4>3, <5>2
        <5> QED
          BY <3>1, <5>1, <5>3 DEF TypeOK, CallsType
      <4> QED
        BY <4>1, <4>2, <4>3
    <3> QED
      BY <1>7, <3>4, ReenterFrames DEF CallsType, Frames
  <2> QED
    BY <2>2, <2>3, <2>4 DEF TypeOK
<1>8. ASSUME NEW t \in Threads, NEW i \in Ids, LogThrows(t, i) PROVE TypeOK'
  <2>1. Busy(t) /\ Top(t).msg \in Msgs
    BY <1>8, TopType DEF LogThrows, At
  <2>2. GlobalsType'
    <3>1. count' \in Nat
      BY <1>8 DEF LogThrows, TypeOK, GlobalsType
    <3>2. purgeMode' \in BOOLEAN
      BY <1>8, Zenon DEF LogThrows, TypeOK, GlobalsType
    <3> QED
      BY <1>8, <3>1, <3>2, Zenon DEF TypeOK, GlobalsType, LogThrows
  <2>3. HistoryType'
    <3>1. offered' \in [Ids -> Seq(Msgs)]
      BY <1>5, <1>8, <2>1 DEF LogThrows
    <3>2. freed' \in [Msgs -> Nat] /\ failedAt' \in [Msgs -> Ids \cup {0}]
      BY <1>8, <2>1, SMTT(30) DEF LogThrows, Delete, TypeOK, HistoryType
    <3>3. crashed' \in BOOLEAN
      BY <1>8, Zenon DEF LogThrows, TypeOK, HistoryType
    <3> QED
      BY <1>8, <3>1, <3>2, <3>3, Zenon DEF TypeOK, HistoryType, LogThrows
  <2>4. CallsType'
    <3>1. "unlock" \in PCs
      BY DEF PCs
    <3>2. /\ Becomes(t, [Top(t) EXCEPT !.pc = "unlock", !.last = i, !.nested = FALSE])
          /\ depth' = depth /\ created' = created
      BY <1>8 DEF LogThrows
    <3>3. /\ [Top(t) EXCEPT !.pc = "unlock", !.last = i, !.nested = FALSE] \in Frame
          /\ [Top(t) EXCEPT !.pc = "unlock", !.last = i, !.nested = FALSE].pc = "unlock"
          /\ [Top(t) EXCEPT !.pc = "unlock", !.last = i, !.nested = FALSE].msg = Top(t).msg
      BY <2>1, <3>1, TopType, ZenonT(60) DEF Frame
    <3> QED
      BY <2>1, <3>1, <3>2, <3>3, BecomesCalls
  <2> QED
    BY <2>2, <2>3, <2>4 DEF TypeOK
<1>9. ASSUME NEW t \in Threads, AllSent(t) PROVE TypeOK'
  <2>1. Busy(t) /\ Top(t).msg \in Msgs
    BY <1>9, TopType DEF AllSent, At
  <2>2. GlobalsType'
    BY <1>9, Zenon DEF TypeOK, GlobalsType, AllSent, globals
  <2>3. freed' \in [Msgs -> Nat]
    BY <1>9, <2>1 DEF AllSent, Delete, TypeOK, HistoryType
  <2>4. HistoryType'
    BY <1>9, <2>3, Zenon DEF TypeOK, HistoryType, AllSent
  <2>5. CallsType'
    <3>1. "unlock" \in PCs
      BY DEF PCs
    <3>2. Becomes(t, [Top(t) EXCEPT !.pc = "unlock"]) /\ depth' = depth /\ created' = created
      BY <1>9 DEF AllSent
    <3> QED
      BY <2>1, <3>1, <3>2, NextFrameType, BecomesCalls
  <2> QED
    BY <2>2, <2>4, <2>5 DEF TypeOK
<1>10. ASSUME NEW t \in Threads, Leave(t) PROVE TypeOK'
  <2>1. Busy(t) /\ InSection(t, depth[t]) /\ depth[t] \in 1 .. MaxDepth
    BY <1>10, TopType DEF Leave, At, InSection
  <2>2. mutex.owner = t /\ mutex.depth \in 1 .. MaxDepth
    BY <2>1 DEF LockInv, TypeOK, GlobalsType
  <2>3. mutex' \in [owner : Threads \cup {NoThread}, depth : 0 .. MaxDepth]
    <3>1. mutex \in [owner : Threads \cup {NoThread}, depth : 0 .. MaxDepth]
      BY DEF TypeOK, GlobalsType
    <3> QED
      BY <1>10, <2>2, <3>1 DEF Leave, Unlock
  <2>4. GlobalsType'
    BY <1>10, <2>3, Zenon DEF TypeOK, GlobalsType, Leave, globals
  <2>5. HistoryType'
    BY <1>10, Zenon DEF TypeOK, HistoryType, Leave, history
  <2>6. CallsType'
    BY <1>10, <2>1, ReturnCalls DEF Leave, history
  <2> QED
    BY <2>4, <2>5, <2>6 DEF TypeOK
<1>11. ASSUME NEW new \in SUBSET Ids, StartMessageFacility(new) PROVE TypeOK'
  <2>1. isStarted' \in BOOLEAN
    BY <1>11, Zenon DEF StartMessageFacility, TypeOK, GlobalsType
  <2>2. destinations' \in SUBSET Ids
    BY <1>11 DEF StartMessageFacility, TypeOK, GlobalsType
  <2>3. GlobalsType'
    BY <1>11, <2>1, <2>2, Zenon DEF StartMessageFacility, TypeOK, GlobalsType
  <2>4. UNCHANGED <<depth, frame, history>>
    BY <1>11 DEF StartMessageFacility
  <2> QED
    BY <2>3, <2>4, Zenon DEF TypeOK, CallsType, HistoryType, history
<1>12. ASSUME EndMessageFacility \/ FinalShutdown PROVE TypeOK'
  <2>1. isStarted' \in BOOLEAN /\ exiting' \in BOOLEAN
    BY <1>12, Zenon DEF EndMessageFacility, FinalShutdown, TypeOK, GlobalsType
  <2>2. UNCHANGED <<purgeMode, count, destinations, mutex, depth, frame, history>>
    BY <1>12 DEF EndMessageFacility, FinalShutdown
  <2> QED
    BY <2>1, <2>2, Zenon DEF TypeOK, GlobalsType, CallsType, HistoryType, history
<1>13. ASSUME UNCHANGED vars PROVE TypeOK'
  BY <1>13, Zenon DEF vars, globals, history, TypeOK, GlobalsType, CallsType, HistoryType
<1> QED
  BY <1>1, <1>2, <1>3, <1>4, <1>6, <1>7, <1>8, <1>9, <1>10, <1>11, <1>12, <1>13, Zenon DEF Next, Step

--------------------------------------------------------------------------------
(***************************************************************************)
(* The mutex.                                                              *)
(***************************************************************************)
\* A call that goes on, and neither takes nor gives up the mutex.
LEMMA BecomesLock ==
    ASSUME TypeOK, LockInv, NEW t \in Threads, Busy(t), NEW f \in Frame, Becomes(t, f),
           depth' = depth, mutex' = mutex,
           f.pc \in {"send", "unlock"} <=> InSection(t, depth[t])
    PROVE  LockInv'
<1>1. /\ frame'[t][depth[t]] = f /\ depth[t] \in 1 .. MaxDepth
      /\ \A s \in Threads, k \in 1 .. MaxDepth :
            s # t \/ k # depth[t] => frame'[s][k] = frame[s][k]
  BY BecomesType, TopType
<1>2. \A s \in Threads, k \in 1 .. MaxDepth : InSection(s, k)' <=> InSection(s, k)
  BY <1>1 DEF InSection
<1>3. ASSUME NEW s \in Threads, NEW k \in 1 .. MaxDepth, k < depth[s] PROVE frame'[s][k].pc = "send"
  BY <1>1, <1>3 DEF LockInv
<1> QED
  BY <1>2, <1>3 DEF LockInv

\* A call that returns without having the mutex.
LEMMA ReturnLock ==
    ASSUME TypeOK, LockInv, NEW t \in Threads, Busy(t), Return(t), mutex' = mutex,
           ~InSection(t, depth[t])
    PROVE  LockInv'
<1>1. /\ depth' \in [Threads -> 0 .. MaxDepth] /\ depth \in [Threads -> 0 .. MaxDepth]
      /\ depth'[t] = depth[t] - 1 /\ depth[t] \in 1 .. MaxDepth
      /\ \A s \in Threads : s # t => depth'[s] = depth[s]
      /\ \A s \in Threads, k \in 1 .. MaxDepth :
            s # t \/ k # depth[t] => frame'[s][k] = frame[s][k]
  BY ReturnType, TopType DEF TypeOK, CallsType
<1>2. \A s \in Threads, k \in 1 .. MaxDepth :
         k <= depth'[s] => k <= depth[s] /\ frame'[s][k] = frame[s][k]
  BY <1>1
<1>3. \A s \in Threads, k \in 1 .. MaxDepth : k < depth'[s] => frame'[s][k].pc = "send"
  BY <1>1, <1>2 DEF LockInv
<1>4. \A s \in Threads, k \in 1 .. MaxDepth :
         k <= depth'[s] => (InSection(s, k)' <=> mutex.owner = s /\ k <= mutex.depth)
  BY <1>2 DEF LockInv, InSection
<1>5. mutex.owner = t => mutex.depth <= depth[t] - 1
  BY <1>1 DEF LockInv, InSection, TypeOK, GlobalsType
<1>6. \A s \in Threads : mutex.owner = s => mutex.depth <= depth'[s] /\ mutex.depth > 0
  BY <1>1, <1>5 DEF LockInv
<1> QED
  BY <1>3, <1>4, <1>6 DEF LockInv

\* Every step keeps the calls that hold the mutex in line with it.
LEMMA NextLock ==
    ASSUME TypeOK, LockInv, [Next]_vars
    PROVE  LockInv'
<1> USE BoundsAssumption, IdsAssumption
<1>1. ASSUME NEW t \in Threads, Release(t) PROVE LockInv'
  <2>1. /\ depth[t] = 0 /\ depth'[t] = 1 /\ depth \in [Threads -> 0 .. MaxDepth]
        /\ \A s \in Threads : s # t => depth'[s] = depth[s]
        /\ frame'[t][1] = Fresh(created + 1) /\ created + 1 \in Msgs
        /\ \A s \in Threads, k \in 1 .. MaxDepth : s # t \/ k # 1 => frame'[s][k] = frame[s][k]
    BY <1>1, ReleaseFrames DEF TypeOK, CallsType
  <2>2. mutex' = mutex /\ mutex.owner # t
    BY <1>1, <2>1 DEF Release, LockInv, TypeOK, GlobalsType
  <2>3. frame'[t][1].pc = "logErrorObj"
    BY <2>1, FreshType
  <2>4. \A s \in Threads, k \in 1 .. MaxDepth : k < depth'[s] => frame'[s][k].pc = "send"
    BY <2>1 DEF LockInv
  <2>5. ASSUME NEW s \in Threads, NEW k \in 1 .. MaxDepth, k <= depth'[s]
        PROVE  InSection(s, k)' <=> mutex.owner = s /\ k <= mutex.depth
    <3>1. CASE s = t
      BY <2>1, <2>2, <2>3, <2>5, <3>1 DEF InSection
    <3>2. CASE s # t
      BY <2>1, <2>5, <3>2 DEF InSection, LockInv
    <3> QED
      BY <3>1, <3>2
  <2>6. \A s \in Threads : mutex.owner = s => mutex.depth <= depth'[s] /\ mutex.depth > 0
    BY <2>1, <2>2 DEF LockInv
  <2> QED
    BY <2>2, <2>4, <2>5, <2>6 DEF LockInv
<1>2. ASSUME NEW t \in Threads, LogErrorObj(t) PROVE LockInv'
  <2>1. Busy(t) /\ ~InSection(t, depth[t]) /\ mutex' = mutex
    BY <1>2 DEF LogErrorObj, At, Top, InSection
  <2>2. CASE isStarted
    <3>1. Becomes(t, [Top(t) EXCEPT !.pc = "logMessage"]) /\ depth' = depth
      BY <1>2, <2>2, Zenon DEF LogErrorObj
    <3>2. "logMessage" \in PCs
      BY DEF PCs
    <3> QED
      BY <2>1, <3>1, <3>2, NextFrameType, BecomesLock, ZenonT(60)
  <2>3. CASE ~isStarted
    BY <1>2, <2>1, <2>3, ReturnLock DEF LogErrorObj
  <2> QED
    BY <2>2, <2>3
<1>3. ASSUME NEW t \in Threads, CheckPurgeMode(t) PROVE LockInv'
  <2>1. Busy(t) /\ ~InSection(t, depth[t]) /\ mutex' = mutex
    BY <1>3 DEF CheckPurgeMode, At, Top, InSection
  <2>2. CASE purgeMode
    BY <1>3, <2>1, <2>2, ReturnLock DEF CheckPurgeMode
  <2>3. CASE ~purgeMode
    <3>1. Becomes(t, [Top(t) EXCEPT !.pc = "lock"]) /\ depth' = depth
      BY <1>3, <2>3, Zenon DEF CheckPurgeMode
    <3>2. "lock" \in PCs
      BY DEF PCs
    <3> QED
      BY <2>1, <3>1, <3>2, NextFrameType, BecomesLock, ZenonT(60)
  <2> QED
    BY <2>2, <2>3
<1>4. ASSUME NEW t \in Threads, Acquire(t) PROVE LockInv'
  <2>1. Busy(t) /\ At(t, "lock") /\ depth' = depth /\ depth[t] \in 1 .. MaxDepth
    BY <1>4, TopType DEF Acquire, At
  <2>2. /\ mutex.owner \in {NoThread, t} /\ mutex.depth = depth[t] - 1
        /\ mutex'.owner = t /\ mutex'.depth = depth[t]
    <3>1. mutex.owner \in {NoThread, t} /\ mutex' = [owner |-> t, depth |-> mutex.depth + 1]
      BY <1>4 DEF Acquire, Lock, MayLock
    <3>2. mutex.depth = depth[t] - 1
      BY <2>1, <3>1, LockDepth
    <3> QED
      BY <2>1, <3>1, <3>2
  <2>3. /\ frame'[t][depth[t]].pc = "send"
        /\ \A s \in Threads, k \in 1 .. MaxDepth :
              s # t \/ k # depth[t] => frame'[s][k] = frame[s][k]
    <3>1. "send" \in PCs /\ Becomes(t, [Top(t) EXCEPT !.pc = "send"])
      BY <1>4 DEF Acquire, PCs
    <3>2. [Top(t) EXCEPT !.pc = "send"] \in Frame /\ [Top(t) EXCEPT !.pc = "send"].pc = "send"
      BY <2>1, <3>1, TopType DEF Frame
    <3> QED
      BY <2>1, <3>1, <3>2, BecomesType
  <2>4. \A s \in Threads, k \in 1 .. MaxDepth : k < depth'[s] => frame'[s][k].pc = "send"
    BY <2>1, <2>3 DEF LockInv
  <2>5. ASSUME NEW s \in Threads, NEW k \in 1 .. MaxDepth, k <= depth'[s]
        PROVE  InSection(s, k)' <=> mutex'.owner = s /\ k <= mutex'.depth
    <3>1. CASE s = t
      BY <2>1, <2>2, <2>3, <2>4, <2>5, <3>1 DEF InSection
    <3>2. CASE s # t
      BY <2>1, <2>2, <2>3, <2>5, <3>2, NoThreadAssumption DEF InSection, LockInv
    <3> QED
      BY <3>1, <3>2
  <2> QED
    BY <2>1, <2>2, <2>4, <2>5, NoThreadAssumption DEF LockInv
<1>5. ASSUME NEW t \in Threads, NEW i \in Ids, LogReturns(t, i) PROVE LockInv'
  <2>1. /\ Busy(t) /\ Top(t).pc = "send" /\ mutex' = mutex /\ depth' = depth
        /\ Becomes(t, [Top(t) EXCEPT !.last = i, !.nested = FALSE])
    BY <1>5 DEF LogReturns, At, globals
  <2>2. InSection(t, depth[t])
    BY <2>1 DEF InSection, Top
  <2>3. /\ [Top(t) EXCEPT !.last = i, !.nested = FALSE] \in Frame
        /\ [Top(t) EXCEPT !.last = i, !.nested = FALSE].pc = "send"
    BY <2>1, TopType, ZenonT(60) DEF Frame
  <2> QED
    BY <2>1, <2>2, <2>3, BecomesLock
<1>6. ASSUME NEW t \in Threads, NEW i \in Ids, LogReenters(t, i) PROVE LockInv'
  <2>1. /\ depth'[t] = depth[t] + 1 /\ depth[t] \in 1 .. MaxDepth - 1
        /\ \A s \in Threads : s # t => depth'[s] = depth[s]
        /\ frame'[t][depth[t] + 1] = Fresh(created + 1) /\ created + 1 \in Msgs
        /\ frame'[t][depth[t]].pc = "send"
        /\ \A s \in Threads, k \in 1 .. MaxDepth :
              s # t \/ k \notin {depth[t], depth[t] + 1} => frame'[s][k] = frame[s][k]
    BY <1>6, ReenterFrames
  <2>2. mutex' = mutex /\ InSection(t, depth[t])
    BY <1>6 DEF LogReenters, At, Top, InSection
  <2>3. frame'[t][depth[t] + 1].pc = "logErrorObj"
    BY <2>1, FreshType
  <2>4. mutex.owner = t => mutex.depth <= depth[t] /\ mutex.depth \in Nat
    BY DEF LockInv, TypeOK, GlobalsType
  <2>5. ASSUME NEW s \in Threads, NEW k \in 1 .. MaxDepth
        PROVE  /\ k < depth'[s] => frame'[s][k].pc = "send"
               /\ k <= depth'[s] => (InSection(s, k)' <=> mutex.owner = s /\ k <= mutex.depth)
    <3>1. CASE s # t
      BY <2>1, <3>1 DEF LockInv, InSection
    <3>2. CASE s = t /\ k < depth[t]
      BY <2>1, <3>2 DEF LockInv, InSection
    <3>3. CASE s = t /\ k = depth[t]
      BY <2>1, <2>2, <3>3 DEF LockInv, InSection
    <3>4. CASE s = t /\ k > depth[t]
      BY <2>1, <2>3, <2>4, <3>4 DEF InSection
    <3> QED
      BY <2>1, <3>1, <3>2, <3>3, <3>4
  <2>6. \A s \in Threads : mutex.owner = s => mutex.depth <= depth'[s] /\ mutex.depth > 0
    BY <2>1, <2>4 DEF LockInv
  <2> QED
    BY <2>2, <2>5, <2>6 DEF LockInv
<1>7. ASSUME NEW t \in Threads, NEW i \in Ids, LogThrows(t, i) PROVE LockInv'
  <2>1. /\ Busy(t) /\ Top(t).pc = "send" /\ mutex' = mutex /\ depth' = depth
        /\ Becomes(t, [Top(t) EXCEPT !.pc = "unlock", !.last = i, !.nested = FALSE])
    BY <1>7 DEF LogThrows, At
  <2>2. InSection(t, depth[t])
    BY <2>1 DEF InSection, Top
  <2>3. /\ [Top(t) EXCEPT !.pc = "unlock", !.last = i, !.nested = FALSE] \in Frame
        /\ [Top(t) EXCEPT !.pc = "unlock", !.last = i, !.nested = FALSE].pc = "unlock"
    BY <2>1, TopType, ZenonT(60) DEF Frame, PCs
  <2> QED
    BY <2>1, <2>2, <2>3, BecomesLock
<1>8. ASSUME NEW t \in Threads, AllSent(t) PROVE LockInv'
  <2>1. /\ Busy(t) /\ Top(t).pc = "send" /\ mutex' = mutex /\ depth' = depth
        /\ Becomes(t, [Top(t) EXCEPT !.pc = "unlock"])
    BY <1>8 DEF AllSent, At
  <2>2. InSection(t, depth[t])
    BY <2>1 DEF InSection, Top
  <2>3. /\ [Top(t) EXCEPT !.pc = "unlock"] \in Frame
        /\ [Top(t) EXCEPT !.pc = "unlock"].pc = "unlock"
    BY <2>1, TopType DEF Frame, PCs
  <2> QED
    BY <2>1, <2>2, <2>3, BecomesLock
<1>9. ASSUME NEW t \in Threads, Leave(t) PROVE LockInv'
  <2>1. Busy(t) /\ InSection(t, depth[t]) /\ Return(t) /\ depth[t] \in 1 .. MaxDepth
    BY <1>9, TopType DEF Leave, At, InSection
  <2>2. mutex.owner = t /\ mutex.depth = depth[t]
    BY <2>1 DEF LockInv, TypeOK, GlobalsType
  <2>3. /\ depth' \in [Threads -> 0 .. MaxDepth] /\ depth'[t] = depth[t] - 1
        /\ \A s \in Threads : s # t => depth'[s] = depth[s]
        /\ \A s \in Threads, k \in 1 .. MaxDepth :
              s # t \/ k # depth[t] => frame'[s][k] = frame[s][k]
    BY <2>1, ReturnType
  <2>4. CASE depth[t] = 1
    <3>1. mutex'.owner = NoThread /\ mutex'.depth = 0
      BY <1>9, <2>2, <2>4 DEF Leave, Unlock
    <3>2. \A s \in Threads, k \in 1 .. MaxDepth :
             k <= depth'[s] => ~InSection(s, k)' /\ (k < depth'[s] => frame'[s][k].pc = "send")
      BY <2>2, <2>3, <2>4 DEF LockInv, InSection
    <3>3. \A s \in Threads : mutex'.owner # s
      BY <3>1, NoThreadAssumption
    <3>4. \A s \in Threads, k \in 1 .. MaxDepth : k < depth'[s] => frame'[s][k].pc = "send"
      BY <2>3, <3>2 DEF LockInv
    <3> QED
      BY <3>1, <3>2, <3>3, <3>4, Zenon DEF LockInv
  <2>5. CASE depth[t] # 1
    <3>1. mutex'.owner = t /\ mutex'.depth = depth[t] - 1
      <4>1. mutex \in [owner : Threads \cup {NoThread}, depth : 0 .. MaxDepth]
        BY DEF TypeOK, GlobalsType
      <4> QED
        BY <1>9, <2>2, <2>5, <4>1 DEF Leave, Unlock
    <3>2. ASSUME NEW s \in Threads, NEW k \in 1 .. MaxDepth
          PROVE  /\ k < depth'[s] => frame'[s][k].pc = "send"
                 /\ k <= depth'[s] => (InSection(s, k)' <=> mutex'.owner = s /\ k <= mutex'.depth)
      <4>1. CASE s # t
        BY <2>2, <2>3, <3>1, <4>1 DEF LockInv, InSection
      <4>2. CASE s = t
        BY <2>1, <2>2, <2>3, <3>1, <4>2 DEF LockInv, InSection
      <4> QED
        BY <4>1, <4>2
    <3> QED
      BY <2>1, <2>3, <2>5, <3>1, <3>2, NoThreadAssumption DEF LockInv
  <2> QED
    BY <2>4, <2>5
<1>10. ASSUME UNCHANGED <<mutex, depth, frame>> PROVE LockInv'
  BY <1>10, Zenon DEF LockInv, InSection
<1>11. ASSUME NEW new \in SUBSET Ids, StartMessageFacility(new) PROVE LockInv'
  BY <1>10, <1>11 DEF StartMessageFacility
<1>12. ASSUME EndMessageFacility \/ FinalShutdown PROVE LockInv'
  BY <1>10, <1>12 DEF EndMessageFacility, FinalShutdown
<1>13. ASSUME UNCHANGED vars PROVE LockInv'
  BY <1>10, <1>13 DEF vars
<1> QED
  BY <1>1, <1>2, <1>3, <1>4, <1>5, <1>6, <1>7, <1>8, <1>9, <1>11, <1>12, <1>13, Zenon DEF Next, Step

--------------------------------------------------------------------------------
(***************************************************************************)
(* The map of destinations.                                                *)
(***************************************************************************)
Past(t, k) == frame[t][k].pc \notin {"none", "logErrorObj"}

\* A call that goes on, past LogErrorObj's test only if there are destinations.
LEMMA BecomesStart ==
    ASSUME TypeOK, StartInv, NEW t \in Threads, Busy(t), NEW f \in Frame, Becomes(t, f),
           isStarted' = isStarted, destinations' = destinations, destinations # {}
    PROVE  StartInv'
BY DEF StartInv

\* Nothing that fills or empties the map, and no call that gets past the test.
LEMMA KeepStart ==
    ASSUME TypeOK, StartInv, isStarted' => isStarted \/ destinations' # {},
           destinations \subseteq destinations',
           \A t \in Threads, k \in 1 .. MaxDepth : Past(t, k)' => Past(t, k)
    PROVE  StartInv'
BY DEF StartInv, Past

\* A call that returns.
LEMMA ReturnStart ==
    ASSUME TypeOK, StartInv, NEW t \in Threads, Busy(t), Return(t),
           isStarted' = isStarted, destinations' = destinations
    PROVE  StartInv'
<1>1. \A s \in Threads, k \in 1 .. MaxDepth :
         frame'[s][k] = NoFrame \/ frame'[s][k] = frame[s][k]
  BY ReturnType, TopType
<1>2. \A s \in Threads, k \in 1 .. MaxDepth : Past(s, k)' => Past(s, k)
  BY <1>1 DEF Past, NoFrame
<1> QED
  BY <1>2, KeepStart

\* No step empties the map once calls rely on it.
LEMMA NextStart ==
    ASSUME TypeOK, LockInv, StartInv, [Next]_vars
    PROVE  StartInv'
<1> USE BoundsAssumption, IdsAssumption
<1>1. ASSUME NEW t \in Threads, Release(t) PROVE StartInv'
  <2>1. \A s \in Threads, k \in 1 .. MaxDepth :
           frame'[s][k] = Fresh(created + 1) \/ frame'[s][k] = frame[s][k]
    BY <1>1, ReleaseFrames
  <2>2. Fresh(created + 1).pc = "logErrorObj"
    BY <1>1, ReleaseFrames, FreshType
  <2>3. \A s \in Threads, k \in 1 .. MaxDepth : Past(s, k)' => Past(s, k)
    BY <2>1, <2>2 DEF Past
  <2> QED
    BY <1>1, <2>3, KeepStart DEF Release, globals
<1>2. ASSUME NEW t \in Threads, Busy(t), Top(t).pc \notin {"none", "logErrorObj"}
      PROVE  destinations # {}
  BY <1>2, TopType DEF StartInv
<1>3. ASSUME NEW t \in Threads, LogErrorObj(t) PROVE StartInv'
  <2>1. Busy(t) /\ isStarted' = isStarted /\ destinations' = destinations
    BY <1>3 DEF LogErrorObj, At, globals
  <2>2. CASE isStarted
    <3>1. Becomes(t, [Top(t) EXCEPT !.pc = "logMessage"])
      BY <1>3, <2>2, Zenon DEF LogErrorObj
    <3>2. [Top(t) EXCEPT !.pc = "logMessage"] \in Frame
      BY <2>1, TopType DEF Frame, PCs
    <3> QED
      BY <2>1, <2>2, <3>1, <3>2, BecomesStart DEF StartInv
  <2>3. CASE ~isStarted
    BY <1>3, <2>1, <2>3, ReturnStart DEF LogErrorObj
  <2> QED
    BY <2>2, <2>3
<1>4. ASSUME NEW t \in Threads, CheckPurgeMode(t) PROVE StartInv'
  <2>1. /\ Busy(t) /\ isStarted' = isStarted /\ destinations' = destinations
        /\ Top(t).pc = "logMessage"
    BY <1>4 DEF CheckPurgeMode, At, globals
  <2>2. CASE purgeMode
    BY <1>4, <2>1, <2>2, ReturnStart DEF CheckPurgeMode
  <2>3. CASE ~purgeMode
    <3>1. Becomes(t, [Top(t) EXCEPT !.pc = "lock"])
      BY <1>4, <2>3, Zenon DEF CheckPurgeMode
    <3>2. [Top(t) EXCEPT !.pc = "lock"] \in Frame
      BY <2>1, TopType DEF Frame, PCs
    <3> QED
      BY <1>2, <2>1, <3>1, <3>2, BecomesStart
  <2> QED
    BY <2>2, <2>3
<1>5. ASSUME NEW t \in Threads, Acquire(t) PROVE StartInv'
  <2>1. destinations' # {}
    BY <1>5 DEF Acquire
  <2> QED
    BY <1>5, <2>1 DEF StartInv, Acquire
<1>6. ASSUME NEW t \in Threads, Top(t).pc = "send", Busy(t), isStarted' = isStarted,
             destinations' = destinations
      PROVE  StartInv'
  BY <1>2, <1>6 DEF StartInv
<1>7. ASSUME NEW t \in Threads, NEW i \in Ids,
             LogReturns(t, i) \/ LogReenters(t, i) \/ LogThrows(t, i) \/ AllSent(t)
      PROVE  StartInv'
  BY <1>6, <1>7 DEF LogReturns, LogReenters, LogThrows, AllSent, At, globals
<1>8. ASSUME NEW t \in Threads, Leave(t) PROVE StartInv'
  BY <1>8, ReturnStart DEF Leave, At, globals
<1>9. ASSUME NEW new \in SUBSET Ids, StartMessageFacility(new) PROVE StartInv'
  <2>1. \A s \in Threads, k \in 1 .. MaxDepth : Past(s, k)' => Past(s, k)
    BY <1>9 DEF StartMessageFacility, Past
  <2>2. isStarted' => isStarted \/ destinations' # {}
    BY <1>9 DEF StartMessageFacility
  <2>3. destinations \subseteq destinations'
    BY <1>9 DEF StartMessageFacility
  <2> QED
    BY <2>1, <2>2, <2>3, KeepStart
<1>10. ASSUME EndMessageFacility \/ FinalShutdown PROVE StartInv'
  BY <1>10, Zenon DEF EndMessageFacility, FinalShutdown, StartInv
<1>11. ASSUME UNCHANGED vars PROVE StartInv'
  BY <1>11, Zenon DEF vars, globals, StartInv
<1>12. ASSUME NEW t \in Threads, AllSent(t) PROVE StartInv'
  BY <1>7, <1>12
<1> QED
  BY <1>1, <1>3, <1>4, <1>5, <1>7, <1>8, <1>9, <1>10, <1>11, <1>12, Zenon DEF Next, Step

--------------------------------------------------------------------------------
(***************************************************************************)
(* Purge mode.                                                             *)
(***************************************************************************)
\* Only exceptions turn purge mode on, and nothing turns it off.
LEMMA NextPurge ==
    ASSUME TypeOK, PurgeJustified, [Next]_vars
    PROVE  PurgeJustified'
<1>1. ASSUME NEW t \in Threads, NEW i \in Ids, LogThrows(t, i) PROVE PurgeJustified'
  <2>1. CASE /\ count' = count + 1
             /\ purgeMode' = (purgeMode \/ TooMany(count'))
             /\ UNCHANGED crashed
    <3>1. count > MaxExceptions => count' > MaxExceptions
      BY <2>1, BoundsAssumption DEF TypeOK, GlobalsType
    <3> QED
      BY <2>1, <3>1, Zenon DEF PurgeJustified, TooMany
  <2>2. CASE purgeMode' = TRUE /\ crashed' = TRUE /\ UNCHANGED count
    BY <2>2 DEF PurgeJustified
  <2> QED
    BY <1>1, <2>1, <2>2, Zenon DEF LogThrows
<1>2. ASSUME UNCHANGED <<purgeMode, count, crashed>> PROVE PurgeJustified'
  BY <1>2, Zenon DEF PurgeJustified
<1>3. ASSUME NEW t \in Threads,
             Release(t) \/ LogErrorObj(t) \/ CheckPurgeMode(t) \/ Acquire(t) \/ AllSent(t) \/ Leave(t)
      PROVE  PurgeJustified'
  BY <1>2, <1>3, Zenon DEF Release, LogErrorObj, CheckPurgeMode, Acquire, AllSent, Leave, globals, history
<1>4. ASSUME NEW t \in Threads, NEW i \in Ids, LogReturns(t, i) \/ LogReenters(t, i)
      PROVE  PurgeJustified'
  BY <1>2, <1>4, Zenon DEF LogReturns, LogReenters, globals
<1>5. ASSUME NEW new \in SUBSET Ids, StartMessageFacility(new) PROVE PurgeJustified'
  BY <1>2, <1>5, Zenon DEF StartMessageFacility, history
<1>6. ASSUME EndMessageFacility \/ FinalShutdown PROVE PurgeJustified'
  BY <1>2, <1>6, Zenon DEF EndMessageFacility, FinalShutdown, history
<1>7. ASSUME UNCHANGED vars PROVE PurgeJustified'
  BY <1>2, <1>7, Zenon DEF vars, globals, history
<1> QED
  BY <1>1, <1>3, <1>4, <1>5, <1>6, <1>7, Zenon DEF Next, Step

--------------------------------------------------------------------------------
(***************************************************************************)
(* The messages.  No two calls under way have the same message, and a      *)
(* message is deleted iff no call uses it any more.                        *)
(***************************************************************************)
Live(t, k) == k <= depth[t]
Uses(t, k) == Live(t, k) /\ frame[t][k].pc # "unlock"
OwnInv ==
    /\ \A s, t \in Threads, j, k \in 1 .. MaxDepth :
          Live(s, j) /\ Live(t, k) /\ frame[s][j].msg = frame[t][k].msg => s = t /\ j = k
    /\ \A t \in Threads, k \in 1 .. MaxDepth : Uses(t, k) => freed[frame[t][k].msg] = 0
    /\ \A m \in 1 .. created :
          \/ freed[m] = 1
          \/ \E t \in Threads, k \in 1 .. MaxDepth : Uses(t, k) /\ frame[t][k].msg = m
    /\ \A m \in Msgs : m > created => freed[m] = 0

\* Before anything runs there are no messages.
LEMMA InitOwn == Init => OwnInv
BY BoundsAssumption DEF Init, OwnInv, Live, Uses, Msgs

\* Calls go on or return, and nobody's use of a message changes.
LEMMA KeepOwn ==
    ASSUME TypeOK, OwnInv, created' = created, freed' = freed,
           \A t \in Threads, k \in 1 .. MaxDepth :
              /\ Live(t, k)' => Live(t, k) /\ frame'[t][k].msg = frame[t][k].msg
              /\ Uses(t, k)' <=> Uses(t, k)
    PROVE  OwnInv'
<1>1. \A t \in Threads, k \in 1 .. MaxDepth :
         Uses(t, k)' => Uses(t, k) /\ frame'[t][k].msg = frame[t][k].msg
  BY DEF Uses
<1>2. \A t \in Threads, k \in 1 .. MaxDepth :
         Uses(t, k) => Uses(t, k)' /\ frame'[t][k].msg = frame[t][k].msg
  BY DEF Uses
<1>3. \A s, t \in Threads, j, k \in 1 .. MaxDepth :
         Live(s, j)' /\ Live(t, k)' /\ frame'[s][j].msg = frame'[t][k].msg => s = t /\ j = k
  BY DEF OwnInv
<1>4. \A t \in Threads, k \in 1 .. MaxDepth : Uses(t, k)' => freed'[frame'[t][k].msg] = 0
  BY <1>1 DEF OwnInv
<1>5. \A m \in 1 .. created' :
         \/ freed'[m] = 1
         \/ \E t \in Threads, k \in 1 .. MaxDepth : Uses(t, k)' /\ frame'[t][k].msg = m
  BY <1>2 DEF OwnInv
<1>6. \A m \in Msgs : m > created' => freed'[m] = 0
  BY DEF OwnInv
<1> QED
  BY <1>3, <1>4, <1>5, <1>6 DEF OwnInv

\* The innermost call of t gives its message up, and deletes it.
LEMMA DeleteOwn ==
    ASSUME TypeOK, OwnInv, NEW t \in Threads, Busy(t), NEW d \in 1 .. MaxDepth, d = depth[t],
           Uses(t, d), created' = created, Delete(Top(t).msg), ~Uses(t, d)',
           \A s \in Threads, k \in 1 .. MaxDepth :
              /\ Live(s, k)' => Live(s, k) /\ frame'[s][k].msg = frame[s][k].msg
              /\ s # t \/ k # d => (Uses(s, k)' <=> Uses(s, k))
    PROVE  OwnInv'
<1> DEFINE x == Top(t).msg
<1>1. d \in 1 .. MaxDepth /\ x = frame[t][d].msg /\ x \in Msgs /\ x \in 1 .. created
  BY TopType
<1>2. /\ freed'[x] = 1
      /\ \A m \in Msgs : m # x => freed'[m] = freed[m]
  <2>1. freed \in [Msgs -> Nat] /\ freed[x] = 0
    BY <1>1 DEF OwnInv, TypeOK, HistoryType
  <2>2. freed' = [freed EXCEPT ![x] = @ + 1]
    BY DEF Delete
  <2> QED
    BY <1>1, <2>1, <2>2
<1>3. 1 .. created \subseteq Msgs /\ created \in Nat
  BY BoundsAssumption DEF TypeOK, HistoryType, Msgs
<1> HIDE DEF x
<1>4. \A s \in Threads, k \in 1 .. MaxDepth :
         Uses(s, k)' => /\ Uses(s, k) /\ frame'[s][k].msg = frame[s][k].msg
                        /\ s # t \/ k # d
  BY DEF Uses
<1>5. ASSUME NEW s \in Threads, NEW k \in 1 .. MaxDepth, Uses(s, k)'
      PROVE  freed'[frame'[s][k].msg] = 0
  <2>1. Live(s, k) /\ Live(t, d)
    BY <1>4, <1>5 DEF Uses
  <2>2. frame[s][k].msg # x /\ frame[s][k].msg \in Msgs
    BY <1>1, <1>3, <1>4, <1>5, <2>1 DEF OwnInv, TypeOK, CallsType, Live
  <2> QED
    BY <1>2, <1>4, <1>5, <2>2 DEF OwnInv
<1>6. ASSUME NEW m \in 1 .. created, m # x
      PROVE  \/ freed'[m] = 1
             \/ \E s \in Threads, k \in 1 .. MaxDepth : Uses(s, k)' /\ frame'[s][k].msg = m
  <2>1. CASE freed[m] = 1
    BY <1>2, <1>3, <1>6, <2>1
  <2>2. ASSUME NEW s \in Threads, NEW k \in 1 .. MaxDepth, Uses(s, k), frame[s][k].msg = m
        PROVE  Uses(s, k)' /\ frame'[s][k].msg = m
    <3>1. s # t \/ k # d
      BY <1>1, <1>6, <2>2
    <3>2. Uses(s, k)'
      BY <2>2, <3>1
    <3> QED
      BY <2>2, <3>2 DEF Uses
  <2> QED
    BY <2>1, <2>2 DEF OwnInv
<1>7. \A m \in 1 .. created' :
         \/ freed'[m] = 1
         \/ \E s \in Threads, k \in 1 .. MaxDepth : Uses(s, k)' /\ frame'[s][k].msg = m
  BY <1>2, <1>6
<1>8. \A s, u \in Threads, j, k \in 1 .. MaxDepth :
         Live(s, j)' /\ Live(u, k)' /\ frame'[s][j].msg = frame'[u][k].msg => s = u /\ j = k
  BY DEF OwnInv
<1>9. \A m \in Msgs : m > created' => freed'[m] = 0
  BY <1>1, <1>2, <1>3 DEF OwnInv
<1> QED
  BY <1>5, <1>7, <1>8, <1>9 DEF OwnInv

\* Call k of t begins, with a message of its own.
LEMMA CreateOwn ==
    ASSUME TypeOK, OwnInv, NEW t \in Threads, NEW k \in 1 .. MaxDepth,
           created + 1 \in Msgs, created' = created + 1, freed' = freed,
           ~Live(t, k), Uses(t, k)', frame'[t][k].msg = created + 1,
           \A s \in Threads, j \in 1 .. MaxDepth : s # t \/ j # k =>
              /\ Live(s, j)' <=> Live(s, j)
              /\ Uses(s, j)' <=> Uses(s, j)
              /\ Live(s, j) => frame'[s][j].msg = frame[s][j].msg
    PROVE  OwnInv'
<1>1. created \in Nat /\ 1 .. created' = (1 .. created) \cup {created + 1}
  BY DEF TypeOK, HistoryType
<1>2. \A s \in Threads, j \in 1 .. MaxDepth :
         Live(s, j) => frame[s][j].msg \in 1 .. created /\ frame[s][j].msg # created + 1
  BY <1>1 DEF TypeOK, CallsType, Live
<1>3. ASSUME NEW s \in Threads, NEW u \in Threads, NEW i \in 1 .. MaxDepth, NEW j \in 1 .. MaxDepth,
             Live(s, i)', Live(u, j)', frame'[s][i].msg = frame'[u][j].msg
      PROVE  s = u /\ i = j
  <2>1. CASE s = t /\ i = k
    BY <1>2, <1>3, <2>1
  <2>2. CASE u = t /\ j = k
    BY <1>2, <1>3, <2>2
  <2>3. CASE ~(s = t /\ i = k) /\ ~(u = t /\ j = k)
    BY <1>3, <2>3 DEF OwnInv
  <2> QED
    BY <2>1, <2>2, <2>3
<1>4. ASSUME NEW s \in Threads, NEW j \in 1 .. MaxDepth, Uses(s, j)'
      PROVE  freed'[frame'[s][j].msg] = 0
  <2>1. CASE s = t /\ j = k
    BY <1>1, <2>1 DEF OwnInv
  <2>2. CASE ~(s = t /\ j = k)
    BY <1>4, <2>2 DEF OwnInv, Uses
  <2> QED
    BY <2>1, <2>2
<1>5. ASSUME NEW m \in 1 .. created
      PROVE  \/ freed'[m] = 1
             \/ \E s \in Threads, j \in 1 .. MaxDepth : Uses(s, j)' /\ frame'[s][j].msg = m
  <2>1. CASE freed[m] = 1
    BY <2>1
  <2>2. ASSUME NEW s \in Threads, NEW j \in 1 .. MaxDepth, Uses(s, j), frame[s][j].msg = m
        PROVE  Uses(s, j)' /\ frame'[s][j].msg = m
    <3>1. CASE s = t /\ j = k
      BY <1>2, <2>2, <3>1 DEF Uses, TypeOK, HistoryType
    <3>2. CASE ~(s = t /\ j = k)
      BY <2>2, <3>2 DEF Uses
    <3> QED
      BY <3>1, <3>2
  <2> QED
    BY <2>1, <2>2 DEF OwnInv
<1>6. \A m \in Msgs : m > created' => freed'[m] = 0
  BY <1>1 DEF OwnInv, Msgs
<1>7. \A m \in 1 .. created' :
         \/ freed'[m] = 1
         \/ \E s \in Threads, j \in 1 .. MaxDepth : Uses(s, j)' /\ frame'[s][j].msg = m
  BY <1>1, <1>5
<1> QED
  BY <1>3, <1>4, <1>6, <1>7 DEF OwnInv

\* The innermost call goes on, with its message or after its deletion.
LEMMA BecomesOwn ==
    ASSUME TypeOK, OwnInv, NEW t \in Threads, Busy(t), NEW f \in Frame, Becomes(t, f),
           f.msg = Top(t).msg, depth' = depth, created' = created,
           \/ freed' = freed /\ (f.pc = "unlock" <=> Top(t).pc = "unlock")
           \/ Delete(Top(t).msg) /\ Top(t).pc # "unlock" /\ f.pc = "unlock"
    PROVE  OwnInv'
<1>1. PICK d \in 1 .. MaxDepth : d = depth[t]
  BY TopType
<1>2. /\ frame'[t][d] = f /\ Top(t) = frame[t][d]
      /\ \A s \in Threads, k \in 1 .. MaxDepth :
            s # t \/ k # d => frame'[s][k] = frame[s][k]
  BY <1>1, BecomesType, TopType
<1>3. Live(t, d) /\ Live(t, d)'
  BY <1>1 DEF Live, TypeOK, CallsType
<1>4. \A s \in Threads, k \in 1 .. MaxDepth :
         /\ Live(s, k)' => Live(s, k) /\ frame'[s][k].msg = frame[s][k].msg
         /\ s # t \/ k # d => (Uses(s, k)' <=> Uses(s, k))
  BY <1>2 DEF Live, Uses
<1>5. CASE freed' = freed /\ (f.pc = "unlock" <=> Top(t).pc = "unlock")
  <2>1. \A s \in Threads, k \in 1 .. MaxDepth : Uses(s, k)' <=> Uses(s, k)
    BY <1>2, <1>3, <1>4, <1>5 DEF Uses
  <2> QED
    BY <1>4, <1>5, <2>1, KeepOwn
<1>6. CASE Delete(Top(t).msg) /\ Top(t).pc # "unlock" /\ f.pc = "unlock"
  <2>1. Uses(t, d) /\ ~Uses(t, d)'
    BY <1>2, <1>3, <1>6 DEF Uses
  <2> QED
    BY <1>1, <1>4, <1>6, <2>1, DeleteOwn
<1> QED
  BY <1>5, <1>6

\* The innermost call returns, with its message deleted before or now.
LEMMA ReturnOwn ==
    ASSUME TypeOK, OwnInv, NEW t \in Threads, Busy(t), Return(t), created' = created,
           \/ freed' = freed /\ Top(t).pc = "unlock"
           \/ Delete(Top(t).msg) /\ Top(t).pc # "unlock"
    PROVE  OwnInv'
<1>1. PICK d \in 1 .. MaxDepth : d = depth[t]
  BY TopType
<1>2. /\ Top(t) = frame[t][d]
      /\ depth \in [Threads -> 0 .. MaxDepth] /\ depth'[t] = d - 1
      /\ \A s \in Threads : s # t => depth'[s] = depth[s]
      /\ \A s \in Threads, k \in 1 .. MaxDepth :
            s # t \/ k # d => frame'[s][k] = frame[s][k]
  BY <1>1, ReturnType, TopType DEF TypeOK, CallsType
<1>3. Live(t, d) /\ ~Live(t, d)'
  BY <1>1, <1>2 DEF Live
<1>4. \A s \in Threads, k \in 1 .. MaxDepth :
         s # t \/ k # d => (Live(s, k)' <=> Live(s, k)) /\ frame'[s][k] = frame[s][k]
  BY <1>1, <1>2 DEF Live
<1>5. \A s \in Threads, k \in 1 .. MaxDepth :
         /\ Live(s, k)' => Live(s, k) /\ frame'[s][k].msg = frame[s][k].msg
         /\ s # t \/ k # d => (Uses(s, k)' <=> Uses(s, k))
  BY <1>3, <1>4 DEF Uses
<1>6. CASE freed' = freed /\ Top(t).pc = "unlock"
  <2>1. \A s \in Threads, k \in 1 .. MaxDepth : Uses(s, k)' <=> Uses(s, k)
    BY <1>2, <1>3, <1>5, <1>6 DEF Uses
  <2> QED
    BY <1>5, <1>6, <2>1, KeepOwn
<1>7. CASE Delete(Top(t).msg) /\ Top(t).pc # "unlock"
  <2>1. Uses(t, d) /\ ~Uses(t, d)'
    BY <1>2, <1>3, <1>7 DEF Uses
  <2> QED
    BY <1>1, <1>5, <1>7, <2>1, DeleteOwn
<1> QED
  BY <1>6, <1>7

\* Every step keeps the messages and the calls that use them in line.
LEMMA NextOwn ==
    ASSUME TypeOK, OwnInv, [Next]_vars
    PROVE  OwnInv'
<1>1. ASSUME NEW t \in Threads, Release(t) PROVE OwnInv'
  <2>1. /\ created + 1 \in Msgs /\ depth[t] = 0 /\ depth'[t] = 1
        /\ \A s \in Threads : s # t => depth'[s] = depth[s]
        /\ frame'[t][1] = Fresh(created + 1)
        /\ \A s \in Threads, k \in 1 .. MaxDepth : s # t \/ k # 1 => frame'[s][k] = frame[s][k]
    BY <1>1, ReleaseFrames
  <2>2. frame'[t][1].pc = "logErrorObj" /\ frame'[t][1].msg = created + 1
    BY <2>1, FreshType
  <2>3. 1 \in 1 .. MaxDepth /\ ~Live(t, 1) /\ Uses(t, 1)'
    BY <2>1, <2>2, BoundsAssumption DEF Live, Uses
  <2>4. \A s \in Threads, k \in 1 .. MaxDepth : s # t \/ k # 1 =>
           (Live(s, k)' <=> Live(s, k)) /\ frame'[s][k] = frame[s][k]
    BY <2>1 DEF Live
  <2>5. \A s \in Threads, k \in 1 .. MaxDepth : s # t \/ k # 1 =>
           /\ Live(s, k)' <=> Live(s, k)
           /\ Uses(s, k)' <=> Uses(s, k)
           /\ Live(s, k) => frame'[s][k].msg = frame[s][k].msg
    BY <2>4 DEF Uses
  <2>6. created' = created + 1 /\ freed' = freed
    BY <1>1 DEF Release
  <2> QED
    BY <2>1, <2>2, <2>3, <2>5, <2>6, CreateOwn
<1>2. ASSUME NEW t \in Threads, LogErrorObj(t) PROVE OwnInv'
  <2>1. Busy(t) /\ Top(t).pc = "logErrorObj" /\ created' = created
    BY <1>2 DEF LogErrorObj, At
  <2>2. CASE isStarted
    <3>1. Becomes(t, [Top(t) EXCEPT !.pc = "logMessage"]) /\ depth' = depth /\ freed' = freed
      BY <1>2, <2>2, Zenon DEF LogErrorObj
    <3>2. /\ [Top(t) EXCEPT !.pc = "logMessage"] \in Frame
          /\ [Top(t) EXCEPT !.pc = "logMessage"].pc = "logMessage"
          /\ [Top(t) EXCEPT !.pc = "logMessage"].msg = Top(t).msg
      BY <2>1, TopType DEF Frame, PCs
    <3> QED
      BY <2>1, <3>1, <3>2, BecomesOwn
  <2>3. CASE ~isStarted
    BY <1>2, <2>1, <2>3, ReturnOwn DEF LogErrorObj
  <2> QED
    BY <2>2, <2>3
<1>3. ASSUME NEW t \in Threads, CheckPurgeMode(t) PROVE OwnInv'
  <2>1. Busy(t) /\ Top(t).pc = "logMessage" /\ created' = created
    BY <1>3 DEF CheckPurgeMode, At
  <2>2. CASE purgeMode
    BY <1>3, <2>1, <2>2, ReturnOwn DEF CheckPurgeMode
  <2>3. CASE ~purgeMode
    <3>1. Becomes(t, [Top(t) EXCEPT !.pc = "lock"]) /\ depth' = depth /\ freed' = freed
      BY <1>3, <2>3, Zenon DEF CheckPurgeMode
    <3>2. /\ [Top(t) EXCEPT !.pc = "lock"] \in Frame
          /\ [Top(t) EXCEPT !.pc = "lock"].pc = "lock"
          /\ [Top(t) EXCEPT !.pc = "lock"].msg = Top(t).msg
      BY <2>1, TopType DEF Frame, PCs
    <3> QED
      BY <2>1, <3>1, <3>2, BecomesOwn
  <2> QED
    BY <2>2, <2>3
<1>4. ASSUME NEW t \in Threads, Acquire(t) PROVE OwnInv'
  <2>1. /\ Busy(t) /\ Top(t).pc = "lock" /\ created' = created /\ depth' = depth /\ freed' = freed
        /\ Becomes(t, [Top(t) EXCEPT !.pc = "send"])
    BY <1>4 DEF Acquire, At
  <2>2. /\ [Top(t) EXCEPT !.pc = "send"] \in Frame
        /\ [Top(t) EXCEPT !.pc = "send"].pc = "send"
        /\ [Top(t) EXCEPT !.pc = "send"].msg = Top(t).msg
    BY <2>1, TopType DEF Frame, PCs
  <2> QED
    BY <2>1, <2>2, BecomesOwn
<1>5. ASSUME NEW t \in Threads, NEW i \in Ids, LogReturns(t, i) PROVE OwnInv'
  <2>1. /\ Busy(t) /\ created' = created /\ depth' = depth /\ freed' = freed
        /\ Becomes(t, [Top(t) EXCEPT !.last = i, !.nested = FALSE])
    BY <1>5 DEF LogReturns, At
  <2>2. /\ [Top(t) EXCEPT !.last = i, !.nested = FALSE] \in Frame
        /\ [Top(t) EXCEPT !.last = i, !.nested = FALSE].pc = Top(t).pc
        /\ [Top(t) EXCEPT !.last = i, !.nested = FALSE].msg = Top(t).msg
    BY <2>1, TopType DEF Frame
  <2> QED
    BY <2>1, <2>2, BecomesOwn
<1>6. ASSUME NEW t \in Threads, NEW i \in Ids, LogReenters(t, i) PROVE OwnInv'
  <2>1. depth[t] + 1 \in 1 .. MaxDepth /\ depth[t] \in 1 .. MaxDepth
    <3>1. depth[t] \in 1 .. MaxDepth - 1
      BY <1>6, ReenterFrames
    <3> QED
      BY <3>1, BoundsAssumption
  <2>2. PICK d \in 1 .. MaxDepth : d = depth[t] /\ d + 1 \in 1 .. MaxDepth
    BY <2>1
  <2>3. /\ created + 1 \in Msgs /\ depth'[t] = d + 1
        /\ \A s \in Threads : s # t => depth'[s] = depth[s]
        /\ frame'[t][d + 1] = Fresh(created + 1)
        /\ frame'[t][d].pc = "send" /\ frame'[t][d].msg = Top(t).msg
        /\ \A s \in Threads, k \in 1 .. MaxDepth :
              s # t \/ k \notin {d, d + 1} => frame'[s][k] = frame[s][k]
    <3>1. /\ created + 1 \in Msgs /\ depth'[t] = depth[t] + 1
          /\ \A s \in Threads : s # t => depth'[s] = depth[s]
          /\ frame'[t][depth[t] + 1] = Fresh(created + 1)
          /\ frame'[t][depth[t]].pc = "send" /\ frame'[t][depth[t]].msg = Top(t).msg
          /\ \A s \in Threads, k \in 1 .. MaxDepth :
                s # t \/ k \notin {depth[t], depth[t] + 1} => frame'[s][k] = frame[s][k]
      BY <1>6, ReenterFrames
    <3> QED
      BY <2>2, <3>1
  <2>4. frame'[t][d + 1].pc = "logErrorObj" /\ frame'[t][d + 1].msg = created + 1
    BY <2>3, FreshType
  <2>5. ~Live(t, d + 1) /\ Uses(t, d + 1)'
    BY <2>2, <2>3, <2>4 DEF Live, Uses
  <2>6. Top(t) = frame[t][d] /\ Top(t).pc = "send"
    BY <1>6, <2>2 DEF LogReenters, At, Top
  <2>7. \A s \in Threads, k \in 1 .. MaxDepth : s # t \/ k # d + 1 =>
           /\ Live(s, k)' <=> Live(s, k)
           /\ frame'[s][k].msg = frame[s][k].msg
           /\ frame'[s][k].pc = frame[s][k].pc
    BY <2>2, <2>3, <2>6 DEF Live
  <2>8. \A s \in Threads, k \in 1 .. MaxDepth : s # t \/ k # d + 1 =>
           /\ Live(s, k)' <=> Live(s, k)
           /\ Uses(s, k)' <=> Uses(s, k)
           /\ Live(s, k) => frame'[s][k].msg = frame[s][k].msg
    BY <2>7 DEF Uses
  <2>9. created' = created + 1 /\ freed' = freed
    BY <1>6 DEF LogReenters
  <2> QED
    BY <2>2, <2>3, <2>4, <2>5, <2>8, <2>9, CreateOwn
<1>7. ASSUME NEW t \in Threads, NEW i \in Ids, LogThrows(t, i) PROVE OwnInv'
  <2>1. /\ Busy(t) /\ Top(t).pc = "send" /\ created' = created /\ depth' = depth
        /\ Delete(Top(t).msg)
        /\ Becomes(t, [Top(t) EXCEPT !.pc = "unlock", !.last = i, !.nested = FALSE])
    BY <1>7 DEF LogThrows, At
  <2>2. /\ [Top(t) EXCEPT !.pc = "unlock", !.last = i, !.nested = FALSE] \in Frame
        /\ [Top(t) EXCEPT !.pc = "unlock", !.last = i, !.nested = FALSE].pc = "unlock"
        /\ [Top(t) EXCEPT !.pc = "unlock", !.last = i, !.nested = FALSE].msg = Top(t).msg
    BY <2>1, TopType DEF Frame, PCs
  <2> QED
    BY <2>1, <2>2, BecomesOwn
<1>8. ASSUME NEW t \in Threads, AllSent(t) PROVE OwnInv'
  <2>1. /\ Busy(t) /\ Top(t).pc = "send" /\ created' = created /\ depth' = depth
        /\ Delete(Top(t).msg) /\ Becomes(t, [Top(t) EXCEPT !.pc = "unlock"])
    BY <1>8 DEF AllSent, At
  <2>2. /\ [Top(t) EXCEPT !.pc = "unlock"] \in Frame
        /\ [Top(t) EXCEPT !.pc = "unlock"].pc = "unlock"
        /\ [Top(t) EXCEPT !.pc = "unlock"].msg = Top(t).msg
    BY <2>1, TopType DEF Frame, PCs
  <2> QED
    BY <2>1, <2>2, BecomesOwn
<1>9. ASSUME NEW t \in Threads, Leave(t) PROVE OwnInv'
  BY <1>9, ReturnOwn DEF Leave, At, history
<1>10. ASSUME UNCHANGED <<created, freed, depth, frame>> PROVE OwnInv'
  BY <1>10, KeepOwn DEF Uses, Live
<1>11. ASSUME NEW new \in SUBSET Ids, StartMessageFacility(new) PROVE OwnInv'
  BY <1>10, <1>11 DEF StartMessageFacility, history
<1>12. ASSUME EndMessageFacility \/ FinalShutdown PROVE OwnInv'
  BY <1>10, <1>12 DEF EndMessageFacility, FinalShutdown, history
<1>13. ASSUME UNCHANGED vars PROVE OwnInv'
  BY <1>10, <1>13 DEF vars, history
<1> QED
  BY <1>1, <1>2, <1>3, <1>4, <1>5, <1>6, <1>7, <1>8, <1>9, <1>11, <1>12, <1>13, Zenon DEF Next, Step

--------------------------------------------------------------------------------
(***************************************************************************)
(* The theorems.                                                           *)
(***************************************************************************)
\* The conjuncts of IInv need each other: TypeOK needs LockInv for the depth
\* of the mutex, LockInv needs TypeOK.
THEOREM DispatcherInvariant == Spec => []IInv
<1>1. IInv /\ [Next]_vars => IInv'
  BY NextType, NextLock, NextStart, NextPurge DEF IInv
<1> QED
  BY InitIInv, <1>1, PTL DEF Spec

\* The type invariant: the calls a thread is in hold released messages, the
\* mutex is never locked more often than calls are nested.
THEOREM DispatcherTypeCorrect == Spec => []TypeOK
<1>1. IInv => TypeOK
  BY DEF IInv
<1> QED
  BY <1>1, DispatcherInvariant, PTL

\* However destinations throw and log themselves, only one thread is in the
\* critical section of logMessage, and it holds msgMutex_ for just the calls
\* that have locked it.
THEOREM SectionExclusive == Spec => []MutualExclusion
<1>1. IInv => MutualExclusion
  <2> SUFFICES ASSUME IInv PROVE MutualExclusion
    OBVIOUS
  <2>1. ASSUME NEW t \in Threads
        PROVE  Locked(t) = IF mutex.owner = t THEN 1 .. mutex.depth ELSE {}
    <3>1. depth[t] \in 0 .. MaxDepth /\ mutex.depth \in 0 .. MaxDepth
      BY DEF IInv, TypeOK, CallsType, GlobalsType
    <3>2. \A k \in 1 .. depth[t] : k \in Locked(t) <=> mutex.owner = t /\ k <= mutex.depth
      BY <3>1, BoundsAssumption DEF IInv, LockInv, InSection, Locked
    <3>3. mutex.owner = t => mutex.depth <= depth[t]
      BY DEF IInv, LockInv
    <3>4. Locked(t) \subseteq 1 .. depth[t]
      BY DEF Locked
    <3>5. CASE mutex.owner = t
      <4>1. 1 .. mutex.depth \subseteq 1 .. depth[t]
        BY <3>1, <3>3, <3>5
      <4>2. \A k \in 1 .. depth[t] : k \in 1 .. mutex.depth <=> k <= mutex.depth
        BY <3>1
      <4>3. \A k : k \in Locked(t) <=> k \in 1 .. mutex.depth
        BY <3>2, <3>4, <3>5, <4>1, <4>2, Zenon
      <4> QED
        BY <3>5, <4>3
    <3>6. CASE mutex.owner # t
      BY <3>2, <3>4, <3>6
    <3> QED
      BY <3>5, <3>6
  <2>2. ASSUME NEW s \in Threads, NEW t \in Threads, Locked(s) # {}, Locked(t) # {} PROVE s = t
    BY <2>1, <2>2
  <2> QED
    BY <2>1, <2>2 DEF MutualExclusion
<1> QED
  BY <1>1, DispatcherInvariant, PTL

\* On each of its five ways out of LogErrorObj a message is deleted once, and
\* not while a call still uses it.
THEOREM DeletedExactlyOnce == Spec => []DeletedOnce
<1>1. TypeOK /\ OwnInv => DeletedOnce
  <2> SUFFICES ASSUME TypeOK, OwnInv, NEW m \in 1 .. created
               PROVE  freed[m] = IF \E t \in Threads : \E k \in Using(t) : frame[t][k].msg = m
                                 THEN 0 ELSE 1
    BY DEF DeletedOnce
  <2>1. \A t \in Threads : \A k : k \in Using(t) <=> k \in 1 .. MaxDepth /\ Uses(t, k)
    BY BoundsAssumption DEF Using, Uses, Live, TypeOK, CallsType
  <2>2. CASE \E t \in Threads : \E k \in Using(t) : frame[t][k].msg = m
    BY <2>1, <2>2 DEF OwnInv
  <2>3. CASE ~\E t \in Threads : \E k \in Using(t) : frame[t][k].msg = m
    BY <2>1, <2>3 DEF OwnInv
  <2> QED
    BY <2>2, <2>3
<1>2. TypeOK /\ OwnInv /\ [Next]_vars => OwnInv'
  BY NextOwn
<1> QED
  BY <1>1, <1>2, InitOwn, DispatcherTypeCorrect, PTL DEF Spec

\* No call that has passed LogErrorObj's test of isStarted finds the map of
\* destinations empty, whatever End, shutdown and failed Starts do meanwhile.
THEOREM NeverWithoutDestinations == Spec => []HasDestinations
<1>1. IInv => HasDestinations
  <2> SUFFICES ASSUME IInv, NEW t \in Threads, Busy(t), Top(t).pc # "logErrorObj"
               PROVE  destinations # {}
    BY DEF HasDestinations
  <2>1. depth[t] \in 1 .. MaxDepth /\ frame[t][depth[t]].pc \in PCs \ {"logErrorObj"}
    BY TopType DEF IInv
  <2> QED
    BY <2>1 DEF IInv, StartInv, PCs
<1> QED
  BY <1>1, DispatcherInvariant, PTL

\* There is no deadlock, whatever is nested in what: who holds the mutex is
\* sending or leaving, or locks it once more for a nested call, and so does not
\* wait; and a loop that has destinations left has a next one.
THEOREM NoDeadlock == Spec => []NobodyStuck
<1>1. ASSUME NEW S \in SUBSET Nat, S # {}
      PROVE  \E i \in S : \A j \in S : i <= j
  <2> DEFINE less == {p \in Nat \X Nat : p[1] < p[2]}
  <2>1. IsWellFoundedOn(less, Nat)
    BY NatLessThanWellFounded DEF OpToRel
  <2>2. PICK i \in S : \A j \in S : <<j, i>> \notin less
    <3> HIDE DEF less
    <3> QED
      BY <1>1, <2>1, WFMin, Zenon
  <2>3. \A j \in S : ~(j < i)
    BY <2>2
  <2> QED
    BY <2>3
<1>2. IInv => NobodyStuck
  <2> SUFFICES ASSUME IInv PROVE NobodyStuck
    OBVIOUS
  <2>1. ASSUME NEW t \in Threads, Busy(t), At(t, "lock") => MayLock(t)
        PROVE  CanGoOn(t)
    <3>1. Remaining(Top(t)) \in SUBSET Nat /\ Remaining(Top(t)) \subseteq Ids
      BY IdsAssumption DEF Remaining, IInv, TypeOK, GlobalsType
    <3>2. Remaining(Top(t)) = {} \/ \E i \in Ids : IsNext(Top(t), i)
      BY <1>1, <3>1 DEF IsNext
    <3> QED
      BY <2>1, <3>2 DEF CanGoOn
  <2>2. ASSUME NEW s \in Threads, mutex.owner = s
        PROVE  Busy(s) /\ MayLock(s)
    <3>1. depth[s] \in 0 .. MaxDepth /\ mutex.depth \in 0 .. MaxDepth
      BY DEF IInv, TypeOK, CallsType, GlobalsType
    <3> QED
      BY <2>2, <3>1, BoundsAssumption DEF IInv, LockInv, Busy, MayLock
  <2>3. ASSUME NEW t \in Threads, Busy(t), ~(At(t, "lock") => MayLock(t))
        PROVE  At(t, "lock") /\ \E s \in Threads : mutex.owner = s /\ CanGoOn(s)
    <3>1. mutex.owner \in Threads
      BY <2>3 DEF MayLock, IInv, TypeOK, GlobalsType
    <3> QED
      BY <2>1, <2>2, <2>3, <3>1
  <2> QED
    BY <2>1, <2>3 DEF NobodyStuck
<1> QED
  BY <1>2, DispatcherInvariant, PTL

\* Purge mode is on exactly when more than MaxExceptions exceptions were
\* caught or something else was, and so for the rest of the process.
THEOREM PurgeOnlyIfJustified == Spec => []PurgeJustified
<1>1. IInv => PurgeJustified
  BY DEF IInv
<1> QED
  BY <1>1, DispatcherInvariant, PTL

--------------------------------------------------------------------------------
(***************************************************************************)
(* Delivery: how many messages slip through once purge mode is on, who     *)
(* gets which message, and in which order.                                 *)
(***************************************************************************)
\* Only call d of t changes.
OthersKept(t, d) ==
    \A s \in Threads, k \in 1 .. MaxDepth : s # t \/ k # d =>
       /\ frame'[s][k] = frame[s][k]
       /\ Live(s, k)' <=> Live(s, k)

\* The innermost call of t goes on as f.
LEMMA GoesOn ==
    ASSUME TypeOK, NEW t \in Threads, Busy(t), NEW f \in Frame, Becomes(t, f), depth' = depth,
           NEW d \in 1 .. MaxDepth, d = depth[t]
    PROVE  OthersKept(t, d) /\ frame'[t][d] = f /\ Live(t, d) /\ Live(t, d)'
<1>1. /\ frame'[t][d] = f
      /\ \A s \in Threads, k \in 1 .. MaxDepth :
            s # t \/ k # d => frame'[s][k] = frame[s][k]
  BY BecomesType
<1>2. Live(t, d) /\ Live(t, d)'
  BY DEF Live
<1> QED
  BY <1>1, <1>2 DEF OthersKept, Live

\* The innermost call of t returns.
LEMMA Returns ==
    ASSUME TypeOK, NEW t \in Threads, Busy(t), Return(t),
           NEW d \in 1 .. MaxDepth, d = depth[t]
    PROVE  OthersKept(t, d) /\ Live(t, d) /\ ~Live(t, d)'
<1>1. /\ depth \in [Threads -> 0 .. MaxDepth] /\ depth'[t] = d - 1
      /\ \A s \in Threads : s # t => depth'[s] = depth[s]
      /\ \A s \in Threads, k \in 1 .. MaxDepth :
            s # t \/ k # d => frame'[s][k] = frame[s][k]
  BY ReturnType DEF TypeOK, CallsType
<1>2. Live(t, d) /\ ~Live(t, d)'
  BY <1>1 DEF Live
<1>3. \A s \in Threads, k \in 1 .. MaxDepth : s # t \/ k # d => (Live(s, k)' <=> Live(s, k))
  BY <1>1 DEF Live
<1> QED
  BY <1>1, <1>2, <1>3 DEF OthersKept

--------------------------------------------------------------------------------
(***************************************************************************)
(* Purge mode.  While it is on, each thread that waits for the mutex may   *)
(* still get it once, and nobody joins the waiting; the thread whose       *)
(* exception turned it on does not wait.                                   *)
(***************************************************************************)
Waiting == {t \in Threads : At(t, "lock")}
PurgeInv == IF purgeMode THEN late + Cardinality(Waiting) < Cardinality(Threads) ELSE late = 0

\* A step of t alone that does not end at the mutex.
LEMMA WaitingShrinks ==
    ASSUME TypeOK, NEW t \in Threads, ~At(t, "lock")',
           \A s \in Threads : s # t => depth'[s] = depth[s],
           \A s \in Threads, k \in 1 .. MaxDepth : s # t => frame'[s][k] = frame[s][k]
    PROVE  Waiting' \subseteq Waiting \ {t}
<1> SUFFICES ASSUME NEW s \in Threads, At(s, "lock")' PROVE s # t /\ At(s, "lock")
  BY DEF Waiting
<1>1. s # t /\ depth'[s] = depth[s] /\ depth'[s] > 0 /\ frame'[s][depth'[s]].pc = "lock"
  BY DEF At, Busy, Top
<1>2. depth[s] \in 1 .. MaxDepth
  BY <1>1 DEF TypeOK, CallsType
<1> QED
  BY <1>1, <1>2 DEF At, Busy, Top

\* Fewer waiting threads are a smaller number of them.
LEMMA WaitingCount ==
    ASSUME NEW W, NEW V, W \subseteq Threads, V \subseteq W
    PROVE  /\ Cardinality(W) \in Nat /\ Cardinality(V) \in Nat /\ Cardinality(Threads) \in Nat
           /\ Cardinality(V) <= Cardinality(W) /\ Cardinality(W) <= Cardinality(Threads)
           /\ \A t \in W : t \notin V => Cardinality(V) < Cardinality(W)
<1>1. IsFiniteSet(W) /\ IsFiniteSet(V) /\ IsFiniteSet(Threads)
  BY ThreadsAssumption, FS_Subset
<1>2. Cardinality(W) \in Nat /\ Cardinality(V) \in Nat /\ Cardinality(Threads) \in Nat
  BY <1>1, FS_CardinalityType
<1>3. Cardinality(V) <= Cardinality(W) /\ Cardinality(W) <= Cardinality(Threads)
  BY <1>1, FS_Subset
<1>4. \A t \in W : t \notin V => Cardinality(V) < Cardinality(W)
  BY <1>1, <1>2, <1>3, FS_Subset
<1> QED
  BY <1>2, <1>3, <1>4

\* Steps that leave purge mode and its witnesses alone keep the invariant
\* when nobody joins the waiting, or when purge mode is off.
LEMMA KeepPurge ==
    ASSUME PurgeInv, purgeMode' = purgeMode, late' = late,
           purgeMode => Waiting' \subseteq Waiting, late \in Nat
    PROVE  PurgeInv'
<1>1. CASE purgeMode
  <2>1. Cardinality(Waiting') <= Cardinality(Waiting)
        /\ Cardinality(Waiting) \in Nat /\ Cardinality(Waiting') \in Nat
        /\ Cardinality(Threads) \in Nat
    BY <1>1, WaitingCount DEF Waiting
  <2> QED
    BY <1>1, <2>1 DEF PurgeInv
<1>2. CASE ~purgeMode
  BY <1>2 DEF PurgeInv
<1> QED
  BY <1>1, <1>2

\* The call of t goes on as f, without waiting for the mutex.
LEMMA GoesOnWaiting ==
    ASSUME TypeOK, NEW t \in Threads, Busy(t), NEW f \in Frame, Becomes(t, f), depth' = depth,
           f.pc # "lock"
    PROVE  Waiting' \subseteq Waiting \ {t}
<1>1. PICK d \in 1 .. MaxDepth : d = depth[t]
  BY TopType
<1>2. OthersKept(t, d) /\ frame'[t][d] = f
  BY <1>1, GoesOn
<1>3. ~At(t, "lock")'
  BY <1>1, <1>2 DEF At, Top
<1> QED
  BY <1>2, <1>3, WaitingShrinks DEF OthersKept

\* The call of t returns: the one above is sending its message.
LEMMA ReturnsWaiting ==
    ASSUME TypeOK, LockInv, NEW t \in Threads, Busy(t), Return(t)
    PROVE  Waiting' \subseteq Waiting \ {t}
<1>1. PICK d \in 1 .. MaxDepth : d = depth[t]
  BY TopType
<1>2. /\ depth'[t] = d - 1
      /\ \A s \in Threads : s # t => depth'[s] = depth[s]
      /\ \A s \in Threads, k \in 1 .. MaxDepth :
            s # t \/ k # d => frame'[s][k] = frame[s][k]
  BY <1>1, ReturnType
<1>3. ~At(t, "lock")'
  <2>1. CASE d = 1
    BY <1>2, <2>1 DEF At, Busy
  <2>2. CASE d # 1
    <3>1. PICK e \in 1 .. MaxDepth : e = d - 1
      BY <1>1, <2>2, BoundsAssumption
    <3>2. frame[t][e].pc = "send" /\ frame'[t][e] = frame[t][e]
      BY <1>1, <1>2, <3>1 DEF LockInv
    <3> QED
      BY <1>2, <3>1, <3>2 DEF At, Top
  <2> QED
    BY <2>1, <2>2
<1> QED
  BY <1>2, <1>3, WaitingShrinks

\* Every step keeps it.
LEMMA NextDrains ==
    ASSUME TypeOK, LockInv, PurgeInv, [Next]_vars
    PROVE  PurgeInv'
<1>1. late \in Nat
  BY DEF TypeOK, HistoryType
<1>2. ASSUME NEW t \in Threads, Release(t) PROVE PurgeInv'
  <2>1. /\ depth'[t] = 1 /\ frame'[t][1] = Fresh(created + 1)
        /\ \A s \in Threads : s # t => depth'[s] = depth[s]
        /\ \A s \in Threads, k \in 1 .. MaxDepth : s # t => frame'[s][k] = frame[s][k]
        /\ created + 1 \in Msgs
    BY <1>2, ReleaseFrames
  <2>2. ~At(t, "lock")'
    BY <2>1, FreshType DEF At, Top
  <2>3. Waiting' \subseteq Waiting
    BY <2>1, <2>2, WaitingShrinks
  <2>4. purgeMode' = purgeMode /\ late' = late
    BY <1>2 DEF Release, globals
  <2> QED
    BY <1>1, <2>3, <2>4, KeepPurge
<1>3. ASSUME NEW t \in Threads, LogErrorObj(t) PROVE PurgeInv'
  <2>1. Busy(t) /\ purgeMode' = purgeMode /\ late' = late
    BY <1>3 DEF LogErrorObj, At, globals
  <2>2. CASE isStarted
    <3>1. Becomes(t, [Top(t) EXCEPT !.pc = "logMessage"]) /\ depth' = depth
      BY <1>3, <2>2, Zenon DEF LogErrorObj
    <3>2. /\ [Top(t) EXCEPT !.pc = "logMessage"] \in Frame
          /\ [Top(t) EXCEPT !.pc = "logMessage"].pc # "lock"
      BY <2>1, TopType DEF Frame, PCs
    <3> QED
      BY <1>1, <2>1, <3>1, <3>2, GoesOnWaiting, KeepPurge
  <2>3. CASE ~isStarted
    <3>1. Return(t)
      BY <1>3, <2>3 DEF LogErrorObj
    <3> QED
      BY <1>1, <2>1, <3>1, ReturnsWaiting, KeepPurge
  <2> QED
    BY <2>2, <2>3
<1>4. ASSUME NEW t \in Threads, CheckPurgeMode(t) PROVE PurgeInv'
  <2>1. Busy(t) /\ purgeMode' = purgeMode /\ late' = late
    BY <1>4 DEF CheckPurgeMode, At, globals
  <2>2. CASE purgeMode
    <3>1. Return(t)
      BY <1>4, <2>2 DEF CheckPurgeMode
    <3> QED
      BY <1>1, <2>1, <3>1, ReturnsWaiting, KeepPurge
  <2> QED
    BY <1>1, <2>1, <2>2, KeepPurge
<1>5. ASSUME NEW t \in Threads, Acquire(t) PROVE PurgeInv'
  <2>1. /\ Busy(t) /\ t \in Waiting /\ depth' = depth /\ purgeMode' = purgeMode
        /\ Becomes(t, [Top(t) EXCEPT !.pc = "send"])
    BY <1>5 DEF Acquire, At, Waiting
  <2>2. /\ [Top(t) EXCEPT !.pc = "send"] \in Frame
        /\ [Top(t) EXCEPT !.pc = "send"].pc # "lock"
    BY <2>1, TopType DEF Frame, PCs
  <2>3. Waiting' \subseteq Waiting \ {t}
    BY <2>1, <2>2, GoesOnWaiting
  <2>4. CASE purgeMode
    <3>1. late' = late + 1
      BY <1>5, <2>4 DEF Acquire
    <3>2. /\ Cardinality(Waiting') < Cardinality(Waiting)
          /\ Cardinality(Waiting) \in Nat /\ Cardinality(Waiting') \in Nat
          /\ Cardinality(Threads) \in Nat
      BY <2>1, <2>3, WaitingCount DEF Waiting
    <3> QED
      BY <1>1, <2>1, <2>4, <3>1, <3>2 DEF PurgeInv
  <2>5. CASE ~purgeMode
    BY <1>5, <2>1, <2>5 DEF Acquire, PurgeInv
  <2> QED
    BY <2>4, <2>5
<1>6. ASSUME NEW t \in Threads, NEW i \in Ids, LogReturns(t, i) PROVE PurgeInv'
  <2>1. /\ Busy(t) /\ Top(t).pc = "send" /\ purgeMode' = purgeMode /\ late' = late /\ depth' = depth
        /\ Becomes(t, [Top(t) EXCEPT !.last = i, !.nested = FALSE])
    BY <1>6 DEF LogReturns, At, globals
  <2>2. /\ [Top(t) EXCEPT !.last = i, !.nested = FALSE] \in Frame
        /\ [Top(t) EXCEPT !.last = i, !.nested = FALSE].pc # "lock"
    BY <2>1, TopType DEF Frame
  <2> QED
    BY <1>1, <2>1, <2>2, GoesOnWaiting, KeepPurge
<1>7. ASSUME NEW t \in Threads, NEW i \in Ids, LogReenters(t, i) PROVE PurgeInv'
  <2>1. /\ depth'[t] = depth[t] + 1 /\ frame'[t][depth[t] + 1] = Fresh(created + 1)
        /\ \A s \in Threads : s # t => depth'[s] = depth[s]
        /\ \A s \in Threads, k \in 1 .. MaxDepth : s # t => frame'[s][k] = frame[s][k]
        /\ created + 1 \in Msgs
    <3>1. /\ depth'[t] = depth[t] + 1 /\ frame'[t][depth[t] + 1] = Fresh(created + 1)
          /\ \A s \in Threads : s # t => depth'[s] = depth[s]
          /\ created + 1 \in Msgs
      BY <1>7, ReenterFrames
    <3>2. \A s \in Threads, k \in 1 .. MaxDepth :
             s # t \/ k \notin {depth[t], depth[t] + 1} => frame'[s][k] = frame[s][k]
      BY <1>7, ReenterFrames
    <3> QED
      BY <3>1, <3>2, Zenon
  <2>2. ~At(t, "lock")'
    BY <2>1, FreshType DEF At, Top
  <2>3. Waiting' \subseteq Waiting
    BY <2>1, <2>2, WaitingShrinks
  <2>4. purgeMode' = purgeMode /\ late' = late
    BY <1>7 DEF LogReenters, globals
  <2> QED
    BY <1>1, <2>3, <2>4, KeepPurge
<1>8. ASSUME NEW t \in Threads, NEW i \in Ids, LogThrows(t, i) PROVE PurgeInv'
  <2>1. /\ Busy(t) /\ Top(t).pc = "send" /\ late' = late /\ depth' = depth
        /\ Becomes(t, [Top(t) EXCEPT !.pc = "unlock", !.last = i, !.nested = FALSE])
        /\ purgeMode => purgeMode'
    BY <1>8 DEF LogThrows, At
  <2>2. /\ [Top(t) EXCEPT !.pc = "unlock", !.last = i, !.nested = FALSE] \in Frame
        /\ [Top(t) EXCEPT !.pc = "unlock", !.last = i, !.nested = FALSE].pc # "lock"
    BY <2>1, TopType DEF Frame, PCs
  <2>3. Waiting' \subseteq Waiting \ {t}
    BY <2>1, <2>2, GoesOnWaiting
  <2>4. /\ Cardinality(Waiting') <= Cardinality(Waiting)
        /\ Cardinality(Waiting') < Cardinality(Threads)
        /\ Cardinality(Waiting) \in Nat /\ Cardinality(Waiting') \in Nat
        /\ Cardinality(Threads) \in Nat
    <3>1. /\ Waiting \subseteq Threads /\ Waiting' \subseteq Threads /\ Waiting' \subseteq Waiting
          /\ t \notin Waiting'
      BY <2>3 DEF Waiting
    <3> QED
      BY <3>1, WaitingCount
  <2> QED
    BY <1>1, <2>1, <2>4 DEF PurgeInv
<1>9. ASSUME NEW t \in Threads, AllSent(t) PROVE PurgeInv'
  <2>1. /\ Busy(t) /\ Top(t).pc = "send" /\ purgeMode' = purgeMode /\ late' = late /\ depth' = depth
        /\ Becomes(t, [Top(t) EXCEPT !.pc = "unlock"])
    BY <1>9 DEF AllSent, At, globals
  <2>2. /\ [Top(t) EXCEPT !.pc = "unlock"] \in Frame
        /\ [Top(t) EXCEPT !.pc = "unlock"].pc # "lock"
    BY <2>1, TopType DEF Frame, PCs
  <2> QED
    BY <1>1, <2>1, <2>2, GoesOnWaiting, KeepPurge
<1>10. ASSUME NEW t \in Threads, Leave(t) PROVE PurgeInv'
  <2>1. Busy(t) /\ Return(t) /\ purgeMode' = purgeMode /\ late' = late
    BY <1>10 DEF Leave, At, globals, history
  <2> QED
    BY <1>1, <2>1, ReturnsWaiting, KeepPurge
<1>11. ASSUME UNCHANGED <<purgeMode, depth, frame, late>> PROVE PurgeInv'
  BY <1>1, <1>11, KeepPurge DEF Waiting, At, Busy, Top
<1>12. ASSUME NEW new \in SUBSET Ids, StartMessageFacility(new) PROVE PurgeInv'
  BY <1>11, <1>12 DEF StartMessageFacility, history
<1>13. ASSUME EndMessageFacility \/ FinalShutdown PROVE PurgeInv'
  BY <1>11, <1>13 DEF EndMessageFacility, FinalShutdown, history
<1>14. ASSUME UNCHANGED vars PROVE PurgeInv'
  BY <1>11, <1>14 DEF vars, globals, history
<1> QED
  BY <1>2, <1>3, <1>4, <1>5, <1>6, <1>7, <1>8, <1>9, <1>10, <1>12, <1>13, <1>14, Zenon
     DEF Next, Step

\* When a destination's exceptions turn purge mode on, the threads that had
\* already looked at purgeMode_ are at the mutex: fewer than there are
\* threads, for the one that throws is not, and each of them gets in once.
THEOREM FewAfterPurge == Spec => []PurgeDrains
<1>1. Init => PurgeInv
  BY DEF Init, PurgeInv
<1>2. PurgeInv /\ TypeOK => PurgeDrains
  <2> SUFFICES ASSUME PurgeInv, TypeOK PROVE PurgeDrains
    OBVIOUS
  <2>1. late \in Nat /\ Cardinality(Waiting) \in Nat /\ Cardinality(Threads) \in Nat
    BY WaitingCount DEF Waiting, TypeOK, HistoryType
  <2>2. Cardinality(Threads) > 0
    BY <2>1, ThreadsAssumption, FS_EmptySet
  <2> QED
    BY <2>1, <2>2 DEF PurgeInv, PurgeDrains
<1>3. IInv /\ PurgeInv /\ [Next]_vars => PurgeInv'
  BY NextDrains DEF IInv
<1>4. IInv => TypeOK
  BY DEF IInv
<1> QED
  BY <1>1, <1>2, <1>3, <1>4, DispatcherInvariant, PTL DEF Spec

--------------------------------------------------------------------------------
(***************************************************************************)
(* Delivery.  What a call may say of its message, by where it is; what     *)
(* there is to say of a message that is gone.                              *)
(***************************************************************************)
\* The destinations the call f has offered its message to: the one that logs
\* a message of its own has been given that of f already.
Reached(f) == {i \in destinations : i <= f.last \/ (f.nested /\ IsNext(f, i))}
Untouched(m) == OfferedTo(m) = {} /\ audience[m] = {} /\ failedAt[m] = 0 /\ m \notin elsewhere
Sent(m) == /\ audience[m] = destinations /\ destinations # {}
           /\ failedAt[m] = 0 /\ m \notin elsewhere
InHand(f) ==
    /\ f.pc \in {"logErrorObj", "logMessage", "lock"} =>
          Untouched(f.msg) /\ f.last = 0 /\ f.nested = FALSE
    /\ f.pc = "send" => Sent(f.msg) /\ OfferedTo(f.msg) = Reached(f)
Ended(m) ==
    /\ audience[m] = {} <=> m \in elsewhere
    /\ OfferedTo(m) = {i \in audience[m] : failedAt[m] = 0 \/ i <= failedAt[m]}
OnceEach == \A i \in Ids : \A p, q \in DOMAIN offered[i] : offered[i][p] = offered[i][q] => p = q

DeliveryInv ==
    /\ \A t \in Threads, k \in 1 .. MaxDepth : Live(t, k) => InHand(frame[t][k])
    /\ \A m \in Msgs : m > created => Untouched(m)
    /\ \A m \in 1 .. created : freed[m] > 0 => Ended(m)
    /\ OnceEach

\* A step leaves all that is known of message m.
Kept(m) ==
    /\ OfferedTo(m)' = OfferedTo(m) /\ audience'[m] = audience[m] /\ failedAt'[m] = failedAt[m]
    /\ m \in elsewhere' <=> m \in elsewhere
    /\ freed'[m] = freed[m]

\* What is kept of the message is kept of the call that has it.
LEMMA KeptInHand ==
    ASSUME NEW f, InHand(f), Kept(f.msg), destinations' = destinations
    PROVE  /\ f.pc \in {"logErrorObj", "logMessage", "lock"} =>
                 Untouched(f.msg)' /\ f.last = 0 /\ f.nested = FALSE
           /\ f.pc = "send" => Sent(f.msg)' /\ OfferedTo(f.msg)' = Reached(f)'
<1>1. Reached(f)' = Reached(f)
  BY DEF Reached, IsNext, Remaining
<1> QED
  BY <1>1 DEF InHand, Kept, Untouched, Sent

\* A step about one message x keeps the invariant if x comes out right.
LEMMA KeepDelivery ==
    ASSUME TypeOK, DeliveryInv, NEW x \in Msgs, x <= created',
           created' \in {created, created + 1}, created' \in 0 .. MaxMsgs,
           destinations' = destinations,
           \A m \in Msgs : m # x => Kept(m),
           \A s \in Threads, k \in 1 .. MaxDepth : Live(s, k)' =>
              \/ Live(s, k) /\ frame'[s][k] = frame[s][k] /\ frame[s][k].msg # x
              \/ InHand(frame[s][k])',
           freed'[x] > 0 => Ended(x)',
           \A m \in Msgs : m > created => freed[m] = 0,
           OnceEach'
    PROVE  DeliveryInv'
<1>1. created \in Nat /\ created' \in Nat /\ 1 .. created \subseteq Msgs
  BY BoundsAssumption DEF TypeOK, HistoryType, Msgs
<1>2. ASSUME NEW s \in Threads, NEW k \in 1 .. MaxDepth, Live(s, k)'
      PROVE  InHand(frame[s][k])'
  <2> SUFFICES ASSUME Live(s, k), frame'[s][k] = frame[s][k], frame[s][k].msg # x
               PROVE  InHand(frame[s][k])'
    BY <1>2
  <2>1. InHand(frame[s][k]) /\ frame[s][k].msg \in Msgs
    BY <1>1 DEF DeliveryInv, Live, TypeOK, CallsType
  <2>2. PICK f : f = frame[s][k]
    OBVIOUS
  <2>3. InHand(f) /\ Kept(f.msg)
    BY <2>1, <2>2
  <2>4. /\ f.pc \in {"logErrorObj", "logMessage", "lock"} =>
              Untouched(f.msg)' /\ f.last = 0 /\ f.nested = FALSE
        /\ f.pc = "send" => Sent(f.msg)' /\ OfferedTo(f.msg)' = Reached(f)'
    BY <2>3, KeptInHand
  <2> QED
    BY <2>2, <2>4 DEF InHand, Reached, IsNext, Remaining, Untouched, Sent, OfferedTo
<1>3. ASSUME NEW m \in Msgs, m > created' PROVE Untouched(m)'
  <2>1. m # x /\ m > created
    BY <1>1, <1>3 DEF Msgs
  <2> QED
    BY <2>1 DEF DeliveryInv, Kept, Untouched
<1>4. ASSUME NEW m \in 1 .. created', freed'[m] > 0 PROVE Ended(m)'
  <2>1. CASE m = x
    BY <1>4, <2>1
  <2>2. CASE m # x
    <3>1. m \in Msgs /\ Kept(m)
      BY <1>1, <1>4, <2>2, BoundsAssumption DEF Msgs
    <3>2. m \in 1 .. created
      BY <1>1, <1>4, <3>1 DEF Kept
    <3> QED
      BY <1>4, <3>1, <3>2 DEF DeliveryInv, Kept, Ended
  <2> QED
    BY <2>1, <2>2
<1> QED
  BY <1>2, <1>3, <1>4 DEF DeliveryInv

\* The next destination is where the call has not been; with it, the call
\* has been everywhere up to it.
LEMMA ReachedNext ==
    ASSUME TypeOK, NEW f \in Frame, NEW i \in Ids, IsNext(f, i)
    PROVE  /\ i \in destinations /\ i > f.last /\ i # 0
           /\ {j \in destinations : j <= f.last \/ j = i} = {j \in destinations : j <= i}
           /\ f.nested => Reached(f) = {j \in destinations : j <= i}
           /\ ~f.nested => /\ Reached(f) = {j \in destinations : j <= f.last}
                          /\ i \notin Reached(f)
           /\ Reached([f EXCEPT !.nested = TRUE]) = {j \in destinations : j <= i}
           /\ Reached([f EXCEPT !.last = i, !.nested = FALSE]) = {j \in destinations : j <= i}
<1>1. destinations \subseteq Ids /\ Ids \subseteq Nat \ {0}
  BY IdsAssumption DEF TypeOK, GlobalsType
<1>2. i \in destinations /\ i > f.last /\ f.last \in Nat /\ i # 0
  <2>1. f.last \in Nat
    <3>1. f.last \in Ids \cup {0}
      BY DEF Frame
    <3>2. f.last \in Ids => f.last \in Nat
      BY <1>1, Zenon
    <3> QED
      BY <3>1, <3>2
  <2>2. i \in destinations /\ i > f.last
    BY DEF IsNext, Remaining
  <2> QED
    BY <1>1, <2>1, <2>2
<1>3. \A j \in destinations : j > f.last => i <= j
  BY DEF IsNext, Remaining
<1>4. {j \in destinations : j <= f.last \/ j = i} = {j \in destinations : j <= i}
  <2>1. ASSUME NEW j \in destinations PROVE (j <= f.last \/ j = i) <=> j <= i
    <3>1. j \in Nat /\ i \in Nat
      BY <1>1
    <3> QED
      BY <1>2, <1>3, <3>1
  <2> QED
    BY <2>1
<1>5. \A j \in Ids : IsNext(f, j) <=> j = i
  BY <1>1, <1>2, <1>3 DEF IsNext, Remaining
<1>6. f.nested => Reached(f) = {j \in destinations : j <= f.last \/ j = i}
  BY <1>1, <1>5 DEF Reached
<1>7. ~f.nested => Reached(f) = {j \in destinations : j <= f.last} /\ i \notin Reached(f)
  BY <1>1, <1>2 DEF Reached
<1>8. PICK g : g = [f EXCEPT !.nested = TRUE]
  OBVIOUS
<1>9. g.last = f.last /\ g.nested = TRUE
  BY <1>8 DEF Frame
<1>10. \A j \in Ids : IsNext(g, j) <=> j = i
  BY <1>5, <1>9 DEF IsNext, Remaining
<1>11. Reached(g) = {j \in destinations : j <= i}
  BY <1>1, <1>4, <1>9, <1>10 DEF Reached
<1>12. PICK h : h = [f EXCEPT !.last = i, !.nested = FALSE]
  OBVIOUS
<1>13. h.last = i /\ h.nested = FALSE
  BY <1>12 DEF Frame
<1>14. Reached(h) = {j \in destinations : j <= i}
  BY <1>13 DEF Reached
<1> QED
  BY <1>2, <1>4, <1>6, <1>7, <1>8, <1>11, <1>12, <1>14

\* A message that destination i was not offered yet goes to the end of what
\* it was offered.
LEMMA AppendOffers ==
    ASSUME TypeOK, OnceEach, NEW x \in Msgs, NEW i \in Ids, i \notin OfferedTo(x),
           offered' = [offered EXCEPT ![i] = Append(@, x)]
    PROVE  /\ OfferedTo(x)' = OfferedTo(x) \cup {i}
           /\ \A m \in Msgs : m # x => OfferedTo(m)' = OfferedTo(m)
           /\ OnceEach'
<1>1. offered[i] \in Seq(Msgs) /\ offered \in [Ids -> Seq(Msgs)]
  BY DEF TypeOK, HistoryType
<1>2. /\ offered'[i] = Append(offered[i], x)
      /\ \A j \in Ids : j # i => offered'[j] = offered[j]
  BY <1>1
<1>3. PICK n \in Nat : n = Len(offered[i])
  BY <1>1
<1>4. /\ DOMAIN offered'[i] = 1 .. n + 1 /\ DOMAIN offered[i] = 1 .. n
      /\ offered'[i][n + 1] = x
      /\ \A p \in 1 .. n : offered'[i][p] = offered[i][p] /\ offered[i][p] # x
  <2>1. \A p \in 1 .. n : offered[i][p] # x
    BY <1>1, <1>3 DEF OfferedTo
  <2> QED
    BY <1>1, <1>2, <1>3, <2>1
<1>5. OnceEach'
  <2> SUFFICES ASSUME NEW j \in Ids, NEW p \in DOMAIN offered'[j], NEW q \in DOMAIN offered'[j],
                      offered'[j][p] = offered'[j][q]
               PROVE  p = q
    BY DEF OnceEach
  <2>1. CASE j # i
    BY <1>2, <2>1 DEF OnceEach
  <2>2. CASE j = i
    <3>1. p \in 1 .. n + 1 /\ q \in 1 .. n + 1
      BY <1>4, <2>2
    <3>2. CASE p \in 1 .. n /\ q \in 1 .. n
      BY <1>4, <2>2, <3>2 DEF OnceEach
    <3>3. CASE p = n + 1 \/ q = n + 1
      BY <1>4, <2>2, <3>1, <3>3
    <3> QED
      BY <3>1, <3>2, <3>3
  <2> QED
    BY <2>1, <2>2
<1>6. OfferedTo(x)' = OfferedTo(x) \cup {i}
  <2>1. i \in OfferedTo(x)'
    <3>1. n + 1 \in DOMAIN offered'[i]
      BY <1>4
    <3> QED
      BY <1>4, <3>1 DEF OfferedTo
  <2>2. \A j \in Ids : j # i => (j \in OfferedTo(x)' <=> j \in OfferedTo(x))
    BY <1>2 DEF OfferedTo
  <2> QED
    BY <2>1, <2>2 DEF OfferedTo
<1>7. ASSUME NEW m \in Msgs, m # x PROVE OfferedTo(m)' = OfferedTo(m)
  <2>1. i \in OfferedTo(m)' <=> i \in OfferedTo(m)
    <3>1. \A p \in 1 .. n + 1 : offered'[i][p] = m => p \in 1 .. n
      BY <1>4, <1>7
    <3> QED
      BY <1>4, <3>1 DEF OfferedTo
  <2>2. \A j \in Ids : j # i => (j \in OfferedTo(m)' <=> j \in OfferedTo(m))
    BY <1>2 DEF OfferedTo
  <2> QED
    BY <2>1, <2>2 DEF OfferedTo
<1> QED
  BY <1>5, <1>6, <1>7

\* The innermost call of t offers its message to the next destination, if it
\* has not done so before that logged a message of its own.
LEMMA EnteredOffers ==
    ASSUME TypeOK, DeliveryInv, NEW t \in Threads, NEW i \in Ids, NEW x \in Msgs,
           At(t, "send"), x = Top(t).msg, IsNext(Top(t), i), Entered(Top(t), i)
    PROVE  /\ Sent(x) /\ OfferedTo(x)' = {j \in destinations : j <= i}
           /\ \A m \in Msgs : m # x => OfferedTo(m)' = OfferedTo(m)
           /\ OnceEach'
<1>1. PICK d \in 1 .. MaxDepth : d = depth[t]
  BY TopType DEF At
<1>2. PICK f \in Frame : f = Top(t)
  BY TopType DEF At
<1>3. f = frame[t][d] /\ f.pc = "send" /\ f.msg = x /\ Live(t, d) /\ f.nested \in BOOLEAN
  BY <1>1, <1>2 DEF At, Top, Live, Frame
<1>4. Sent(x) /\ OfferedTo(x) = Reached(f) /\ OnceEach
  BY <1>3 DEF DeliveryInv, InHand
<1>5. /\ {j \in destinations : j <= f.last \/ j = i} = {j \in destinations : j <= i}
      /\ i \in destinations
      /\ f.nested => Reached(f) = {j \in destinations : j <= i}
      /\ ~f.nested => Reached(f) = {j \in destinations : j <= f.last} /\ i \notin Reached(f)
  BY <1>2, ReachedNext
<1>6. CASE f.nested
  <2>1. offered' = offered
    BY <1>2, <1>6 DEF Entered
  <2> QED
    BY <1>4, <1>5, <1>6, <2>1 DEF OfferedTo, OnceEach
<1>7. CASE ~f.nested
  <2>1. offered' = [offered EXCEPT ![i] = Append(@, x)] /\ i \notin OfferedTo(x)
    BY <1>2, <1>3, <1>4, <1>5, <1>7 DEF Entered
  <2>2. /\ OfferedTo(x)' = OfferedTo(x) \cup {i}
        /\ \A m \in Msgs : m # x => OfferedTo(m)' = OfferedTo(m)
        /\ OnceEach'
    BY <1>4, <2>1, AppendOffers
  <2>3. OfferedTo(x)' = {j \in destinations : j <= i}
    BY <1>4, <1>5, <1>7, <2>2
  <2> QED
    BY <1>4, <2>2, <2>3
<1> QED
  BY <1>6, <1>7

\* A step of call d of t about its message x.
LEMMA StepDelivery ==
    ASSUME TypeOK, OwnInv, DeliveryInv, NEW t \in Threads, NEW d \in 1 .. MaxDepth, Live(t, d),
           NEW x \in Msgs, x = frame[t][d].msg, created' = created, destinations' = destinations,
           OthersKept(t, d), \A m \in Msgs : m # x => Kept(m),
           Live(t, d)' => InHand(frame[t][d])', freed'[x] > 0 => Ended(x)', OnceEach'
    PROVE  DeliveryInv'
<1>1. \A s \in Threads, k \in 1 .. MaxDepth : Live(s, k)' =>
         \/ Live(s, k) /\ frame'[s][k] = frame[s][k] /\ frame[s][k].msg # x
         \/ InHand(frame[s][k])'
  BY DEF OthersKept, OwnInv
<1>2. x <= created' /\ created' \in 0 .. MaxMsgs
  BY DEF TypeOK, CallsType, HistoryType, Live
<1>3. \A m \in Msgs : m > created => freed[m] = 0
  BY DEF OwnInv
<1> QED
  BY <1>1, <1>2, <1>3, KeepDelivery

\* If the step leaves the histories, its message can be kept as it was.
LEMMA QuietDelivery ==
    ASSUME TypeOK, DeliveryInv, NEW x \in 1 .. created, x \in Msgs,
           UNCHANGED <<offered, audience, failedAt, elsewhere, freed>>
    PROVE  /\ \A m \in Msgs : Kept(m)
           /\ freed'[x] > 0 => Ended(x)'
           /\ OnceEach'
BY DEF DeliveryInv, Kept, Ended, OnceEach, OfferedTo

\* A message that the program prints or drops instead was not offered to any
\* destination.
LEMMA DropDelivery ==
    ASSUME TypeOK, OwnInv, DeliveryInv, NEW t \in Threads, Busy(t),
           Top(t).pc \in {"logErrorObj", "logMessage"}, Return(t), Delete(Top(t).msg),
           elsewhere' = elsewhere \cup {Top(t).msg},
           UNCHANGED <<destinations, created, offered, audience, failedAt>>
    PROVE  DeliveryInv'
<1>1. PICK d \in 1 .. MaxDepth : d = depth[t]
  BY TopType
<1>2. PICK x \in Msgs : x = Top(t).msg
  BY TopType
<1>3. OthersKept(t, d) /\ Live(t, d) /\ ~Live(t, d)' /\ x = frame[t][d].msg
  BY <1>1, <1>2, Returns DEF Top
<1>4. Untouched(x)
  BY <1>1, <1>2, <1>3 DEF DeliveryInv, InHand, Top
<1>5. \A m \in Msgs : m # x => Kept(m)
  BY <1>2 DEF Kept, Delete, OfferedTo, TypeOK, HistoryType
<1>6. Ended(x)'
  BY <1>2, <1>4 DEF Ended, Untouched, OfferedTo
<1>7. OnceEach'
  BY DEF DeliveryInv, OnceEach
<1> QED
  BY <1>2, <1>3, <1>5, <1>6, <1>7, StepDelivery

\* A call goes on as f before it has the mutex, or gets it up.
LEMMA MoveDelivery ==
    ASSUME TypeOK, OwnInv, DeliveryInv, NEW t \in Threads, Busy(t), NEW f \in Frame,
           f.msg = Top(t).msg, f.last = Top(t).last, f.nested = Top(t).nested,
           Top(t).pc \in {"logErrorObj", "logMessage"}, f.pc \in {"logMessage", "lock"},
           Becomes(t, f),
           UNCHANGED <<depth, destinations, created, offered, audience, failedAt, elsewhere, freed>>
    PROVE  DeliveryInv'
<1>1. PICK d \in 1 .. MaxDepth : d = depth[t]
  BY TopType
<1>2. PICK x \in Msgs : x = Top(t).msg /\ x \in 1 .. created
  BY TopType
<1>3. OthersKept(t, d) /\ frame'[t][d] = f /\ Live(t, d) /\ x = frame[t][d].msg
  BY <1>1, <1>2, GoesOn DEF Top
<1>4. Untouched(x) /\ f.last = 0 /\ f.nested = FALSE
  BY <1>1, <1>2, <1>3 DEF DeliveryInv, InHand, Top
<1>5. InHand(frame[t][d])'
  BY <1>2, <1>3, <1>4 DEF InHand, Untouched, OfferedTo
<1>6. (\A m \in Msgs : Kept(m)) /\ (freed'[x] > 0 => Ended(x)') /\ OnceEach'
  BY <1>2, QuietDelivery
<1> QED
  BY <1>3, <1>5, <1>6, StepDelivery

\* Every step keeps the invariant.
LEMMA NextDelivery ==
    ASSUME TypeOK, LockInv, StartInv, OwnInv, DeliveryInv, [Next]_vars
    PROVE  DeliveryInv'
<1>1. ASSUME NEW t \in Threads, Release(t) PROVE DeliveryInv'
  <2>1. PICK x \in Msgs : x = created + 1
    BY <1>1, ReleaseFrames
  <2>2. /\ frame'[t][1] = Fresh(x) /\ depth[t] = 0 /\ depth'[t] = 1
        /\ \A s \in Threads : s # t => depth'[s] = depth[s]
        /\ \A s \in Threads, k \in 1 .. MaxDepth : s # t \/ k # 1 => frame'[s][k] = frame[s][k]
    BY <1>1, <2>1, ReleaseFrames
  <2>3. /\ created' = x /\ created \in Nat /\ x \in 0 .. MaxMsgs
        /\ UNCHANGED <<destinations, offered, audience, failedAt, elsewhere, freed>>
    BY <1>1, <2>1 DEF Release, globals, TypeOK, HistoryType, Msgs
  <2>4. Fresh(x).pc = "logErrorObj" /\ Fresh(x).msg = x /\ Fresh(x).last = 0 /\ Fresh(x).nested = FALSE
    BY DEF Fresh, NoFrame
  <2>5. Untouched(x)' /\ freed'[x] = 0
    BY <2>1, <2>3 DEF DeliveryInv, OwnInv, Untouched, OfferedTo
  <2>6. InHand(frame[t][1])'
    BY <2>2, <2>4, <2>5 DEF InHand, Untouched, OfferedTo
  <2>7. \A s \in Threads, k \in 1 .. MaxDepth : Live(s, k)' =>
           \/ Live(s, k) /\ frame'[s][k] = frame[s][k] /\ frame[s][k].msg # x
           \/ InHand(frame[s][k])'
    <3> SUFFICES ASSUME NEW s \in Threads, NEW k \in 1 .. MaxDepth, Live(s, k)', s # t \/ k # 1
                 PROVE  Live(s, k) /\ frame'[s][k] = frame[s][k] /\ frame[s][k].msg # x
      BY <2>6
    <3>1. Live(s, k) /\ frame'[s][k] = frame[s][k]
      BY <2>2 DEF Live
    <3>2. frame[s][k].msg \in 1 .. created
      BY <3>1 DEF Live, TypeOK, CallsType
    <3> QED
      BY <2>1, <2>3, <3>1, <3>2
  <2>8. (\A m \in Msgs : Kept(m)) /\ OnceEach'
    BY <2>3 DEF Kept, OfferedTo, OnceEach, DeliveryInv
  <2>9. \A m \in Msgs : m > created => freed[m] = 0
    BY DEF OwnInv
  <2>10. x <= created' /\ created' \in {created, created + 1} /\ created' \in 0 .. MaxMsgs
    BY <2>1, <2>3
  <2>11. destinations' = destinations /\ ~(freed'[x] > 0)
    BY <2>3, <2>5
  <2> QED
    BY <2>7, <2>8, <2>9, <2>10, <2>11, KeepDelivery
<1>2. ASSUME NEW t \in Threads, LogErrorObj(t) PROVE DeliveryInv'
  <2>1. Busy(t) /\ Top(t).pc = "logErrorObj"
        /\ UNCHANGED <<destinations, created, offered, audience, failedAt>>
    BY <1>2 DEF LogErrorObj, At, globals
  <2>2. CASE isStarted
    <3>1. /\ Becomes(t, [Top(t) EXCEPT !.pc = "logMessage"])
          /\ UNCHANGED <<depth, elsewhere, freed>>
      BY <1>2, <2>2, Zenon DEF LogErrorObj
    <3>2. PICK f : f = [Top(t) EXCEPT !.pc = "logMessage"]
      OBVIOUS
    <3>3. /\ f \in Frame /\ f.msg = Top(t).msg /\ f.last = Top(t).last
          /\ f.nested = Top(t).nested /\ f.pc = "logMessage"
      BY <2>1, <3>2, TopType DEF Frame, PCs
    <3> QED
      BY <2>1, <3>1, <3>2, <3>3, MoveDelivery
  <2>3. CASE ~isStarted
    <3>1. Return(t) /\ Delete(Top(t).msg) /\ elsewhere' = elsewhere \cup {Top(t).msg}
      BY <1>2, <2>3 DEF LogErrorObj
    <3> QED
      BY <2>1, <3>1, DropDelivery
  <2> QED
    BY <2>2, <2>3
<1>3. ASSUME NEW t \in Threads, CheckPurgeMode(t) PROVE DeliveryInv'
  <2>1. Busy(t) /\ Top(t).pc = "logMessage"
        /\ UNCHANGED <<destinations, created, offered, audience, failedAt>>
    BY <1>3 DEF CheckPurgeMode, At, globals
  <2>2. CASE purgeMode
    <3>1. Return(t) /\ Delete(Top(t).msg) /\ elsewhere' = elsewhere \cup {Top(t).msg}
      BY <1>3, <2>2 DEF CheckPurgeMode
    <3> QED
      BY <2>1, <3>1, DropDelivery
  <2>3. CASE ~purgeMode
    <3>1. /\ Becomes(t, [Top(t) EXCEPT !.pc = "lock"])
          /\ UNCHANGED <<depth, elsewhere, freed>>
      BY <1>3, <2>3, Zenon DEF CheckPurgeMode
    <3>2. PICK f : f = [Top(t) EXCEPT !.pc = "lock"]
      OBVIOUS
    <3>3. /\ f \in Frame /\ f.msg = Top(t).msg /\ f.last = Top(t).last
          /\ f.nested = Top(t).nested /\ f.pc = "lock"
      BY <2>1, <3>2, TopType DEF Frame, PCs
    <3> QED
      BY <2>1, <3>1, <3>2, <3>3, MoveDelivery
  <2> QED
    BY <2>2, <2>3
<1>4. ASSUME NEW t \in Threads, Acquire(t) PROVE DeliveryInv'
  <2>1. Busy(t) /\ Top(t).pc = "lock" /\ Becomes(t, [Top(t) EXCEPT !.pc = "send"])
        /\ UNCHANGED <<depth, created, offered, failedAt, elsewhere, freed>>
    BY <1>4 DEF Acquire, At
  <2>2. PICK d \in 1 .. MaxDepth : d = depth[t]
    BY <2>1, TopType
  <2>3. PICK x \in Msgs : x = Top(t).msg
    BY <2>1, TopType
  <2>4. PICK f : f = [Top(t) EXCEPT !.pc = "send"]
    OBVIOUS
  <2>5. /\ f \in Frame /\ f.msg = x /\ f.last = Top(t).last
        /\ f.nested = Top(t).nested /\ f.pc = "send"
    BY <2>1, <2>3, <2>4, TopType DEF Frame, PCs
  <2>6. OthersKept(t, d) /\ frame'[t][d] = f /\ Live(t, d) /\ x = frame[t][d].msg
        /\ frame[t][d].pc = "lock"
    BY <2>1, <2>2, <2>3, <2>4, <2>5, GoesOn DEF Top
  <2>7. Untouched(x) /\ f.last = 0 /\ f.nested = FALSE
    BY <2>2, <2>3, <2>5, <2>6 DEF DeliveryInv, InHand, Top
  <2>8. destinations # {} /\ destinations' = destinations
    <3>1. destinations # {}
      BY <2>6 DEF StartInv
    <3> QED
      BY <1>4, <3>1 DEF Acquire
  <2>9. /\ audience'[x] = destinations
        /\ \A m \in Msgs : m # x => audience'[m] = audience[m]
    BY <1>4, <2>3, <2>8 DEF Acquire, TypeOK, HistoryType
  <2>10. Reached(f)' = {}
    <3>1. \A i \in destinations : ~(i <= 0)
      BY IdsAssumption DEF TypeOK, GlobalsType
    <3> QED
      BY <2>7, <2>8, <3>1 DEF Reached
  <2>11. InHand(frame[t][d])'
    <3>1. Sent(x)' /\ OfferedTo(x)' = {}
      BY <2>1, <2>7, <2>8, <2>9 DEF Sent, Untouched, OfferedTo
    <3> QED
      BY <2>5, <2>6, <2>10, <3>1 DEF InHand, Sent, OfferedTo, Reached, IsNext, Remaining
  <2>12. ~(freed'[x] > 0)
    BY <2>1, <2>6 DEF OwnInv, Uses
  <2>13. (\A m \in Msgs : m # x => Kept(m)) /\ OnceEach'
    BY <2>1, <2>9 DEF Kept, OfferedTo, OnceEach, DeliveryInv
  <2> QED
    BY <2>1, <2>6, <2>8, <2>11, <2>12, <2>13, StepDelivery
<1>5. ASSUME NEW t \in Threads, NEW i \in Ids, LogReturns(t, i) PROVE DeliveryInv'
  <2>1. /\ Busy(t) /\ At(t, "send") /\ Top(t).pc = "send" /\ IsNext(Top(t), i) /\ Entered(Top(t), i)
        /\ Becomes(t, [Top(t) EXCEPT !.last = i, !.nested = FALSE])
        /\ UNCHANGED <<depth, created, destinations, audience, failedAt, elsewhere, freed>>
    BY <1>5 DEF LogReturns, At, globals
  <2>2. PICK d \in 1 .. MaxDepth : d = depth[t]
    BY <2>1, TopType
  <2>3. PICK x \in Msgs : x = Top(t).msg
    BY <2>1, TopType
  <2>4. PICK f : f = [Top(t) EXCEPT !.last = i, !.nested = FALSE]
    OBVIOUS
  <2>5. f \in Frame /\ f.msg = x /\ f.pc = "send"
    BY <2>1, <2>3, <2>4, TopType DEF Frame
  <2>6. OthersKept(t, d) /\ frame'[t][d] = f /\ Live(t, d) /\ x = frame[t][d].msg
        /\ frame[t][d].pc = "send"
    BY <2>1, <2>2, <2>3, <2>4, <2>5, GoesOn DEF Top
  <2>7. /\ Sent(x) /\ OfferedTo(x)' = {j \in destinations : j <= i}
        /\ \A m \in Msgs : m # x => OfferedTo(m)' = OfferedTo(m)
        /\ OnceEach'
    BY <2>1, <2>3, EnteredOffers
  <2>8. Reached(f)' = {j \in destinations : j <= i}
    <3>1. Reached(f) = {j \in destinations : j <= i}
      BY <2>1, <2>4, TopType, ReachedNext
    <3> QED
      BY <2>1, <3>1 DEF Reached, IsNext, Remaining
  <2>9. InHand(frame[t][d])'
    <3>1. Sent(x)'
      BY <2>1, <2>7 DEF Sent
    <3> QED
      BY <2>5, <2>6, <2>7, <2>8, <3>1 DEF InHand, Sent, OfferedTo, Reached, IsNext, Remaining
  <2>10. ~(freed'[x] > 0)
    BY <2>1, <2>6 DEF OwnInv, Uses
  <2>11. \A m \in Msgs : m # x => Kept(m)
    BY <2>1, <2>7 DEF Kept
  <2>12. created' = created /\ destinations' = destinations
    BY <2>1
  <2> QED
    BY <2>6, <2>7, <2>9, <2>10, <2>11, <2>12, StepDelivery
<1>6. ASSUME NEW t \in Threads, NEW i \in Ids, LogReenters(t, i) PROVE DeliveryInv'
  <2>1. /\ Busy(t) /\ At(t, "send") /\ Top(t).pc = "send" /\ IsNext(Top(t), i) /\ Entered(Top(t), i)
        /\ UNCHANGED <<destinations, audience, failedAt, elsewhere, freed>>
        /\ created' = created + 1
    BY <1>6 DEF LogReenters, At, globals
  <2>2. PICK d \in 1 .. MaxDepth : d = depth[t] /\ d + 1 \in 1 .. MaxDepth
    <3>1. depth[t] \in 1 .. MaxDepth - 1
      BY <1>6, ReenterFrames
    <3> QED
      BY <3>1, BoundsAssumption
  <2>3. PICK x \in Msgs : x = Top(t).msg /\ x \in 1 .. created
    BY <2>1, TopType
  <2>4. PICK y \in Msgs : y = created + 1
    BY <1>6, ReenterFrames
  <2>5. PICK f : f = [Top(t) EXCEPT !.nested = TRUE]
    OBVIOUS
  <2>6. f.msg = x /\ f.pc = "send" /\ x = frame[t][d].msg
    BY <2>1, <2>2, <2>3, <2>5, TopType DEF Frame, Top
  <2>7. /\ frame'[t][d + 1] = Fresh(y) /\ frame'[t][d] = f /\ depth'[t] = d + 1
        /\ \A s \in Threads : s # t => depth'[s] = depth[s]
        /\ \A s \in Threads, k \in 1 .. MaxDepth :
              s # t \/ k \notin {d, d + 1} => frame'[s][k] = frame[s][k]
    BY <1>6, <2>2, <2>4, <2>5, ReenterFrames
  <2>8. /\ Sent(x) /\ OfferedTo(x)' = {j \in destinations : j <= i}
        /\ \A m \in Msgs : m # x => OfferedTo(m)' = OfferedTo(m)
        /\ OnceEach'
    BY <2>1, <2>3, EnteredOffers
  <2>9. \A m \in Msgs : m # x => Kept(m)
    BY <2>1, <2>8 DEF Kept
  <2>10. InHand(frame[t][d])'
    <3>1. Reached(f) = {j \in destinations : j <= i}
      BY <2>1, <2>5, TopType, ReachedNext
    <3>2. Reached(f)' = {j \in destinations : j <= i}
      BY <2>1, <3>1 DEF Reached, IsNext, Remaining
    <3>3. Sent(x)'
      BY <2>1, <2>8 DEF Sent
    <3> QED
      BY <2>6, <2>7, <2>8, <3>2, <3>3 DEF InHand, Sent, OfferedTo, Reached, IsNext, Remaining
  <2>11. created \in Nat /\ y # x /\ y > created
    BY <2>3, <2>4 DEF TypeOK, HistoryType
  <2>12. InHand(frame[t][d + 1])'
    <3>1. Fresh(y).pc = "logErrorObj" /\ Fresh(y).msg = y /\ Fresh(y).last = 0
          /\ Fresh(y).nested = FALSE
      BY DEF Fresh, NoFrame
    <3>2. Untouched(y)'
      BY <2>9, <2>11 DEF DeliveryInv, Untouched, Kept
    <3> QED
      BY <2>7, <3>1, <3>2 DEF InHand, Untouched, OfferedTo
  <2>13. \A s \in Threads, k \in 1 .. MaxDepth : Live(s, k)' =>
            \/ Live(s, k) /\ frame'[s][k] = frame[s][k] /\ frame[s][k].msg # x
            \/ InHand(frame[s][k])'
    <3> SUFFICES ASSUME NEW s \in Threads, NEW k \in 1 .. MaxDepth, Live(s, k)',
                        s # t \/ k \notin {d, d + 1}
                 PROVE  Live(s, k) /\ frame'[s][k] = frame[s][k] /\ frame[s][k].msg # x
      BY <2>10, <2>12
    <3>1. Live(s, k) /\ frame'[s][k] = frame[s][k]
      BY <2>2, <2>7 DEF Live
    <3>2. Live(t, d) /\ (s # t \/ k # d)
      BY <2>2 DEF Live
    <3> QED
      BY <2>6, <3>1, <3>2 DEF OwnInv
  <2>14. \A m \in Msgs : m > created => freed[m] = 0
    BY DEF OwnInv
  <2>15. x <= created' /\ created' \in {created, created + 1} /\ created' \in 0 .. MaxMsgs
    BY <2>1, <2>3, <2>4, <2>11 DEF Msgs
  <2>16. ~(freed'[x] > 0)
    <3>1. Live(t, d) /\ frame[t][d].pc = "send"
      BY <2>1, <2>2 DEF Live, Top
    <3> QED
      BY <2>1, <2>6, <3>1 DEF OwnInv, Uses
  <2>17. destinations' = destinations
    BY <2>1
  <2> QED
    BY <2>8, <2>9, <2>13, <2>14, <2>15, <2>16, <2>17, KeepDelivery
<1>7. ASSUME NEW t \in Threads, NEW i \in Ids, LogThrows(t, i) PROVE DeliveryInv'
  <2>1. /\ Busy(t) /\ At(t, "send") /\ Top(t).pc = "send" /\ IsNext(Top(t), i) /\ Entered(Top(t), i)
        /\ Becomes(t, [Top(t) EXCEPT !.pc = "unlock", !.last = i, !.nested = FALSE])
        /\ Delete(Top(t).msg) /\ failedAt' = [failedAt EXCEPT ![Top(t).msg] = i]
        /\ UNCHANGED <<depth, created, destinations, audience, elsewhere>>
    BY <1>7 DEF LogThrows, At
  <2>2. PICK d \in 1 .. MaxDepth : d = depth[t]
    BY <2>1, TopType
  <2>3. PICK x \in Msgs : x = Top(t).msg
    BY <2>1, TopType
  <2>4. PICK f : f = [Top(t) EXCEPT !.pc = "unlock", !.last = i, !.nested = FALSE]
    OBVIOUS
  <2>5. f \in Frame /\ f.pc = "unlock"
    BY <2>1, <2>3, <2>4, TopType DEF Frame, PCs
  <2>6. OthersKept(t, d) /\ frame'[t][d] = f /\ Live(t, d) /\ x = frame[t][d].msg
    BY <2>1, <2>2, <2>3, <2>4, <2>5, GoesOn DEF Top
  <2>7. /\ Sent(x) /\ OfferedTo(x)' = {j \in destinations : j <= i}
        /\ \A m \in Msgs : m # x => OfferedTo(m)' = OfferedTo(m)
        /\ OnceEach'
    BY <2>1, <2>3, EnteredOffers
  <2>8. /\ failedAt'[x] = i /\ i # 0
        /\ \A m \in Msgs : m # x => failedAt'[m] = failedAt[m] /\ freed'[m] = freed[m]
    BY <2>1, <2>3, IdsAssumption DEF Delete, TypeOK, HistoryType
  <2>9. Ended(x)'
    BY <2>1, <2>7, <2>8 DEF Ended, Sent
  <2>10. \A m \in Msgs : m # x => Kept(m)
    BY <2>1, <2>7, <2>8 DEF Kept
  <2>11. InHand(frame[t][d])'
    BY <2>5, <2>6 DEF InHand
  <2>12. created' = created /\ destinations' = destinations
    BY <2>1
  <2> QED
    BY <2>6, <2>7, <2>9, <2>10, <2>11, <2>12, StepDelivery
<1>8. ASSUME NEW t \in Threads, AllSent(t) PROVE DeliveryInv'
  <2>1. /\ Busy(t) /\ Top(t).pc = "send" /\ Remaining(Top(t)) = {}
        /\ Becomes(t, [Top(t) EXCEPT !.pc = "unlock"]) /\ Delete(Top(t).msg)
        /\ UNCHANGED <<depth, created, offered, destinations, audience, failedAt, elsewhere>>
    BY <1>8 DEF AllSent, At, globals
  <2>2. PICK d \in 1 .. MaxDepth : d = depth[t]
    BY <2>1, TopType
  <2>3. PICK x \in Msgs : x = Top(t).msg
    BY <2>1, TopType
  <2>4. PICK f : f = [Top(t) EXCEPT !.pc = "unlock"]
    OBVIOUS
  <2>5. f \in Frame /\ f.pc = "unlock"
    BY <2>1, <2>3, <2>4, TopType DEF Frame, PCs
  <2>6. OthersKept(t, d) /\ frame'[t][d] = f /\ Live(t, d) /\ x = frame[t][d].msg
    BY <2>1, <2>2, <2>3, <2>4, <2>5, GoesOn DEF Top
  <2>7. Sent(x) /\ OfferedTo(x) = Reached(Top(t))
    BY <2>1, <2>2, <2>3, <2>6 DEF DeliveryInv, InHand, Top
  <2>8. Reached(Top(t)) = destinations
    <3>1. PICK g \in Frame : g = Top(t)
      BY <2>1, TopType
    <3>2. g.last \in Nat /\ destinations \subseteq Nat
      <4>1. g.last \in Ids \cup {0}
        BY DEF Frame
      <4>2. g.last \in Ids => g.last \in Nat
        BY IdsAssumption, Zenon
      <4> QED
        BY <4>1, <4>2, IdsAssumption DEF TypeOK, GlobalsType
    <3>3. \A j \in destinations : j <= g.last
      BY <2>1, <3>1, <3>2 DEF Remaining
    <3> QED
      BY <3>1, <3>3 DEF Reached
  <2>9. Ended(x)'
    BY <2>1, <2>7, <2>8 DEF Ended, Sent, OfferedTo
  <2>10. \A m \in Msgs : m # x => Kept(m)
    BY <2>1, <2>3 DEF Kept, Delete, TypeOK, HistoryType, OfferedTo
  <2>11. InHand(frame[t][d])'
    BY <2>5, <2>6 DEF InHand
  <2>12. created' = created /\ destinations' = destinations /\ OnceEach'
    BY <2>1 DEF DeliveryInv, OnceEach
  <2> QED
    BY <2>6, <2>9, <2>10, <2>11, <2>12, StepDelivery
<1>9. ASSUME NEW t \in Threads, Leave(t) PROVE DeliveryInv'
  <2>1. /\ Busy(t) /\ Return(t) /\ created' = created /\ destinations' = destinations
        /\ UNCHANGED <<offered, audience, failedAt, elsewhere, freed>>
    BY <1>9 DEF Leave, At, globals, history
  <2>2. PICK d \in 1 .. MaxDepth : d = depth[t]
    BY <2>1, TopType
  <2>3. PICK x \in Msgs : x = Top(t).msg /\ x \in 1 .. created
    BY <2>1, TopType
  <2>4. OthersKept(t, d) /\ Live(t, d) /\ ~Live(t, d)' /\ x = frame[t][d].msg
    BY <2>1, <2>2, <2>3, Returns DEF Top
  <2>5. (\A m \in Msgs : Kept(m)) /\ (freed'[x] > 0 => Ended(x)') /\ OnceEach'
    BY <2>1, <2>3, QuietDelivery
  <2> QED
    BY <2>1, <2>4, <2>5, StepDelivery
<1>10. ASSUME NEW new \in SUBSET Ids, StartMessageFacility(new) PROVE DeliveryInv'
  <2>1. \A s \in Threads, k \in 1 .. MaxDepth : ~Live(s, k)
    BY <1>10 DEF StartMessageFacility, SingleThreaded, Busy, Live, TypeOK, CallsType
  <2>2. UNCHANGED <<depth, created, offered, audience, failedAt, elsewhere, freed>>
    BY <1>10 DEF StartMessageFacility, history
  <2> QED
    BY <2>1, <2>2 DEF DeliveryInv, Live, Untouched, Ended, OnceEach, OfferedTo
<1>11. ASSUME UNCHANGED <<destinations, depth, frame, history>> PROVE DeliveryInv'
  <2>1. UNCHANGED <<destinations, depth, frame, created, offered, audience, failedAt, elsewhere, freed>>
    BY <1>11 DEF history
  <2>2. ASSUME NEW s \in Threads, NEW k \in 1 .. MaxDepth, InHand(frame[s][k]) PROVE InHand(frame[s][k])'
    BY <2>1, <2>2 DEF InHand, Untouched, Sent, OfferedTo, Reached, IsNext, Remaining
  <2>3. \A s \in Threads, k \in 1 .. MaxDepth : Live(s, k)' => InHand(frame[s][k])'
    BY <2>1, <2>2 DEF DeliveryInv, Live
  <2> QED
    BY <2>1, <2>3 DEF DeliveryInv, Untouched, Ended, OnceEach, OfferedTo
<1>12. ASSUME EndMessageFacility \/ FinalShutdown PROVE DeliveryInv'
  BY <1>11, <1>12 DEF EndMessageFacility, FinalShutdown
<1>13. ASSUME UNCHANGED vars PROVE DeliveryInv'
  BY <1>11, <1>13 DEF vars, globals
<1> QED
  BY <1>1, <1>2, <1>3, <1>4, <1>5, <1>6, <1>7, <1>8, <1>9, <1>10, <1>12, <1>13, Zenon
     DEF Next, Step

DispatchInv == IInv /\ OwnInv /\ DeliveryInv

\* All that is known of the calls and their messages, together.
LEMMA DispatchInductive ==
    /\ Init => DispatchInv
    /\ DispatchInv /\ [Next]_vars => DispatchInv'
<1>1. Init => DeliveryInv
  <2> SUFFICES ASSUME Init PROVE DeliveryInv
    OBVIOUS
  <2>1. \A t \in Threads, k \in 1 .. MaxDepth : ~Live(t, k)
    BY DEF Init, Live
  <2>2. \A m \in Msgs : Untouched(m)
    BY DEF Init, Untouched, OfferedTo
  <2>3. OnceEach /\ created = 0
    BY DEF Init, OnceEach
  <2> QED
    BY <2>1, <2>2, <2>3 DEF DeliveryInv
<1>2. IInv /\ [Next]_vars => IInv'
  BY NextType, NextLock, NextStart, NextPurge DEF IInv
<1>3. IInv /\ OwnInv /\ [Next]_vars => OwnInv'
  BY NextOwn DEF IInv
<1>4. DispatchInv /\ [Next]_vars => DeliveryInv'
  BY NextDelivery DEF DispatchInv, IInv
<1> QED
  BY <1>1, <1>2, <1>3, <1>4, InitIInv, InitOwn DEF DispatchInv

\* Every message that is gone was printed or dropped, or was offered once to
\* each destination there was when it was sent, in the order of the map up to
\* the one that threw, whatever messages of their own destinations logged.
THEOREM EveryMessageDelivered == Spec => []Delivered
<1>1. DispatchInv => Delivered
  BY DEF DispatchInv, DeliveryInv, Delivered, Ended, OnceEach
<1> QED
  BY <1>1, DispatchInductive, PTL DEF Spec

--------------------------------------------------------------------------------
(***************************************************************************)
(* Order.  Above(n) are the messages during whose delivery n was logged.   *)
(* A call's message is below those of the calls around it, and a           *)
(* destination that had the message of a call still sending before another *)
(* message n had n from a call inside it.                                  *)
(***************************************************************************)
NestInv ==
    /\ \A m \in Msgs : m > created => parent[m] = 0
    /\ \A t \in Threads, j, k \in 1 .. MaxDepth :
          j < k /\ Live(t, k) => frame[t][j].msg \in Above(frame[t][k].msg)

OrderInv ==
    /\ \A t \in Threads, k \in 1 .. MaxDepth : Live(t, k) /\ frame[t][k].pc = "send" =>
          \A i \in Ids, n \in Msgs : Before(i, frame[t][k].msg, n) => frame[t][k].msg \in Above(n)
    /\ \A i, j \in Ids, m, n \in Msgs :
          Before(i, m, n) /\ Before(j, n, m) => m \in Above(n) \/ n \in Above(m)

\* The parent of a message is above it, and so is what is above the parent.
LEMMA AboveParent ==
    ASSUME NEW n \in Msgs, NEW p \in Msgs, parent[n] = p
    PROVE  p \in Above(n) /\ Above(p) \subseteq Above(n)
<1>1. p # 0
  BY DEF Msgs
<1>2. p \in Above(n)
  BY <1>1 DEF Above
<1>3. ASSUME NEW m \in Above(p) PROVE m \in Above(n)
  <2> SUFFICES ASSUME NEW S \in SUBSET Msgs, parent[n] \in S \cup {0}, HasParents(S) PROVE m \in S
    BY <1>3 DEF Above
  <2>1. parent[p] \in S \cup {0}
    BY <1>1 DEF HasParents
  <2> QED
    BY <1>3, <2>1 DEF Above
<1> QED
  BY <1>2, <1>3

\* A message that gets its parent when it is logged changes nothing for those
\* before it.
LEMMA AboveGrows ==
    ASSUME NEW c \in Msgs, parent[c] = 0, \A m \in Msgs : m # c => parent'[m] = parent[m],
           NEW n \in Msgs, n # c
    PROVE  Above(n) \subseteq Above(n)'
<1> SUFFICES ASSUME NEW m \in Above(n), NEW S \in SUBSET Msgs,
                    parent'[n] \in S \cup {0}, HasParents(S)'
             PROVE  m \in S
  BY DEF Above
<1>1. parent[n] \in S \cup {0} /\ HasParents(S)
  BY DEF HasParents
<1> QED
  BY <1>1 DEF Above

\* No step changes what is above a message that was released before.
LEMMA NextAbove ==
    ASSUME TypeOK, NestInv, [Next]_vars
    PROVE  \A n \in 1 .. created : n \in Msgs /\ Above(n) \subseteq Above(n)'
<1>1. \A n \in 1 .. created : n \in Msgs /\ n # created + 1
  BY BoundsAssumption DEF Msgs, TypeOK, HistoryType
<1>2. ASSUME parent' = parent PROVE \A n \in Msgs : Above(n) \subseteq Above(n)'
  BY <1>2 DEF Above, HasParents
<1>3. ASSUME NEW t \in Threads, NEW i \in Ids, LogReenters(t, i)
      PROVE  \A n \in 1 .. created : Above(n) \subseteq Above(n)'
  <2>1. PICK c \in Msgs : c = created + 1
    BY <1>3, ReenterFrames
  <2>2. c > created
    BY <2>1 DEF TypeOK, HistoryType
  <2>3. parent[c] = 0 /\ \A m \in Msgs : m # c => parent'[m] = parent[m]
    BY <1>3, <2>1, <2>2 DEF LogReenters, NestInv, TypeOK, HistoryType
  <2> QED
    BY <1>1, <2>1, <2>3, AboveGrows
<1>4. ASSUME NEW t \in Threads,
             Release(t) \/ LogErrorObj(t) \/ CheckPurgeMode(t) \/ Acquire(t) \/ AllSent(t) \/ Leave(t)
      PROVE  parent' = parent
  BY <1>4 DEF Release, LogErrorObj, CheckPurgeMode, Acquire, AllSent, Leave, history
<1>5. ASSUME NEW t \in Threads, NEW i \in Ids, LogReturns(t, i) \/ LogThrows(t, i)
      PROVE  parent' = parent
  BY <1>5 DEF LogReturns, LogThrows
<1>6. ASSUME \/ \E new \in SUBSET Ids : StartMessageFacility(new)
             \/ EndMessageFacility \/ FinalShutdown \/ UNCHANGED vars
      PROVE  parent' = parent
  BY <1>6 DEF StartMessageFacility, EndMessageFacility, FinalShutdown, vars, history
<1>7. parent' = parent \/ \E t \in Threads, i \in Ids : LogReenters(t, i)
  BY <1>4, <1>5, <1>6, Zenon DEF Next, Step
<1> QED
  BY <1>1, <1>2, <1>3, <1>7

\* Calls go on or return.
LEMMA KeepNest ==
    ASSUME NestInv, created' = created, parent' = parent,
           \A t \in Threads, k \in 1 .. MaxDepth : Live(t, k)' => Live(t, k),
           \A t \in Threads, k \in 1 .. MaxDepth : Live(t, k)' => frame'[t][k].msg = frame[t][k].msg,
           depth' \in [Threads -> 0 .. MaxDepth]
    PROVE  NestInv'
<1>2. \A m \in Msgs : m > created' => parent'[m] = 0
  BY DEF NestInv
<1>3. ASSUME NEW t \in Threads, NEW j \in 1 .. MaxDepth, NEW k \in 1 .. MaxDepth, j < k, Live(t, k)'
      PROVE  (frame[t][j].msg \in Above(frame[t][k].msg))'
  <2>1. Live(t, j)'
    BY <1>3 DEF Live
  <2>2. frame'[t][j].msg = frame[t][j].msg /\ frame'[t][k].msg = frame[t][k].msg /\ Live(t, k)
    BY <1>3, <2>1
  <2>3. frame[t][j].msg \in Above(frame[t][k].msg)
    BY <1>3, <2>2 DEF NestInv
  <2> QED
    BY <2>2, <2>3 DEF Above, HasParents
<1> QED
  BY <1>2, <1>3 DEF NestInv

\* Call d of t goes on with its message or returns.
LEMMA StepNest ==
    ASSUME TypeOK', NestInv, NEW t \in Threads, NEW d \in 1 .. MaxDepth, Live(t, d),
           OthersKept(t, d), Live(t, d)' => frame'[t][d].msg = frame[t][d].msg,
           created' = created, parent' = parent
    PROVE  NestInv'
<1>1. \A s \in Threads, k \in 1 .. MaxDepth : Live(s, k)' => Live(s, k)
  BY DEF OthersKept
<1>2. \A s \in Threads, k \in 1 .. MaxDepth : Live(s, k)' => frame'[s][k].msg = frame[s][k].msg
  BY DEF OthersKept
<1>3. depth' \in [Threads -> 0 .. MaxDepth]
  BY DEF TypeOK, CallsType
<1> QED
  BY <1>1, <1>2, <1>3, KeepNest

\* Every step of a thread but the releases is such a step, of its innermost
\* call; and it starts to send only when it gets the mutex.
LEMMA CallStep ==
    ASSUME TypeOK, NEW t \in Threads, Step(t), ~\E i \in Ids : LogReenters(t, i)
    PROVE  \E d \in 1 .. MaxDepth :
              /\ d = depth[t] /\ Live(t, d) /\ OthersKept(t, d) /\ created' = created
              /\ parent' = parent
              /\ Live(t, d)' => frame'[t][d].msg = frame[t][d].msg
              /\ Live(t, d)' /\ frame'[t][d].pc = "send" => frame[t][d].pc = "send" \/ Acquire(t)
<1>1. Busy(t)
  BY Zenon DEF Step, LogErrorObj, CheckPurgeMode, Acquire, LogReturns, LogThrows, AllSent, Leave, At
<1>2. PICK d \in 1 .. MaxDepth : d = depth[t]
  BY <1>1, TopType
<1>3. created' = created /\ parent' = parent
  <2>1. ASSUME LogErrorObj(t) \/ CheckPurgeMode(t) \/ Acquire(t) \/ AllSent(t) \/ Leave(t)
        PROVE  created' = created /\ parent' = parent
    BY <2>1 DEF LogErrorObj, CheckPurgeMode, Acquire, AllSent, Leave, history
  <2>2. ASSUME NEW i \in Ids, LogReturns(t, i) \/ LogThrows(t, i)
        PROVE  created' = created /\ parent' = parent
    BY <2>2 DEF LogReturns, LogThrows
  <2> QED
    BY <2>1, <2>2, Zenon DEF Step
<1>4. ASSUME Return(t)
      PROVE  Live(t, d) /\ OthersKept(t, d) /\ ~Live(t, d)'
  BY <1>1, <1>2, <1>4, Returns
<1>5. ASSUME NEW f \in Frame, f.msg = Top(t).msg, Becomes(t, f), depth' = depth,
             f.pc = "send" => Top(t).pc = "send" \/ Acquire(t)
      PROVE  /\ Live(t, d) /\ OthersKept(t, d) /\ frame'[t][d].msg = frame[t][d].msg
             /\ frame'[t][d].pc = "send" => frame[t][d].pc = "send" \/ Acquire(t)
  BY <1>1, <1>2, <1>5, GoesOn DEF Top
<1>6. ASSUME NEW pc \in PCs, Becomes(t, [Top(t) EXCEPT !.pc = pc]), depth' = depth,
             pc # "send" \/ Acquire(t)
      PROVE  /\ Live(t, d) /\ OthersKept(t, d) /\ frame'[t][d].msg = frame[t][d].msg
             /\ frame'[t][d].pc = "send" => frame[t][d].pc = "send" \/ Acquire(t)
  <2>1. PICK f : f = [Top(t) EXCEPT !.pc = pc]
    OBVIOUS
  <2>2. f \in Frame /\ f.msg = Top(t).msg /\ f.pc = pc
    BY <1>1, <2>1, TopType DEF Frame
  <2> QED
    BY <1>5, <1>6, <2>1, <2>2
<1>7. ASSUME NEW i \in Ids, Becomes(t, [Top(t) EXCEPT !.last = i, !.nested = FALSE]), depth' = depth
      PROVE  /\ Live(t, d) /\ OthersKept(t, d) /\ frame'[t][d].msg = frame[t][d].msg
             /\ frame'[t][d].pc = "send" => frame[t][d].pc = "send" \/ Acquire(t)
  <2>1. PICK f : f = [Top(t) EXCEPT !.last = i, !.nested = FALSE]
    OBVIOUS
  <2>2. f \in Frame /\ f.msg = Top(t).msg /\ f.pc = Top(t).pc
    BY <1>1, <2>1, TopType DEF Frame
  <2> QED
    BY <1>5, <1>7, <2>1, <2>2
<1>8. ASSUME NEW i \in Ids, depth' = depth,
             Becomes(t, [Top(t) EXCEPT !.pc = "unlock", !.last = i, !.nested = FALSE])
      PROVE  /\ Live(t, d) /\ OthersKept(t, d) /\ frame'[t][d].msg = frame[t][d].msg
             /\ frame'[t][d].pc = "send" => frame[t][d].pc = "send" \/ Acquire(t)
  <2>1. PICK f : f = [Top(t) EXCEPT !.pc = "unlock", !.last = i, !.nested = FALSE]
    OBVIOUS
  <2>2. f \in Frame /\ f.msg = Top(t).msg /\ f.pc = "unlock"
    BY <1>1, <2>1, TopType DEF Frame, PCs
  <2> QED
    BY <1>5, <1>8, <2>1, <2>2
<1>9. "logMessage" \in PCs /\ "lock" \in PCs /\ "send" \in PCs /\ "unlock" \in PCs
  BY DEF PCs
<1>10. /\ Live(t, d) /\ OthersKept(t, d)
       /\ Live(t, d)' => frame'[t][d].msg = frame[t][d].msg
       /\ Live(t, d)' /\ frame'[t][d].pc = "send" => frame[t][d].pc = "send" \/ Acquire(t)
  <2>1. CASE LogErrorObj(t)
    BY <1>4, <1>6, <1>9, <2>1 DEF LogErrorObj
  <2>2. CASE CheckPurgeMode(t)
    BY <1>4, <1>6, <1>9, <2>2 DEF CheckPurgeMode
  <2>3. CASE Acquire(t)
    <3>1. Becomes(t, [Top(t) EXCEPT !.pc = "send"]) /\ depth' = depth
      BY <2>3 DEF Acquire
    <3> QED
      BY <1>6, <1>9, <2>3, <3>1
  <2>4. ASSUME NEW i \in Ids, LogReturns(t, i)
        PROVE  /\ Live(t, d) /\ OthersKept(t, d) /\ frame'[t][d].msg = frame[t][d].msg
               /\ frame'[t][d].pc = "send" => frame[t][d].pc = "send" \/ Acquire(t)
    BY <1>7, <2>4 DEF LogReturns
  <2>5. ASSUME NEW i \in Ids, LogThrows(t, i)
        PROVE  /\ Live(t, d) /\ OthersKept(t, d) /\ frame'[t][d].msg = frame[t][d].msg
               /\ frame'[t][d].pc = "send" => frame[t][d].pc = "send" \/ Acquire(t)
    BY <1>8, <2>5 DEF LogThrows
  <2>6. CASE AllSent(t)
    <3>1. Becomes(t, [Top(t) EXCEPT !.pc = "unlock"]) /\ depth' = depth
      BY <2>6 DEF AllSent
    <3> QED
      BY <1>6, <1>9, <3>1
  <2>7. CASE Leave(t)
    BY <1>4, <2>7 DEF Leave
  <2> QED
    BY <2>1, <2>2, <2>3, <2>4, <2>5, <2>6, <2>7, Zenon DEF Step
<1> QED
  BY <1>2, <1>3, <1>10

\* Every step keeps the nesting of the messages with that of the calls.
LEMMA NextNest ==
    ASSUME TypeOK, TypeOK', NestInv, [Next]_vars
    PROVE  NestInv'
<1>1. ASSUME NEW t \in Threads, Release(t) PROVE NestInv'
  <2>1. /\ depth[t] = 0 /\ depth'[t] = 1 /\ created' = created + 1 /\ parent' = parent
        /\ \A s \in Threads : s # t => depth'[s] = depth[s]
        /\ \A s \in Threads, k \in 1 .. MaxDepth : s # t \/ k # 1 => frame'[s][k] = frame[s][k]
    BY <1>1, ReleaseFrames DEF Release
  <2>2. \A m \in Msgs : m > created' => parent'[m] = 0
    BY <2>1 DEF NestInv, Msgs, TypeOK, HistoryType
  <2>3. ASSUME NEW s \in Threads, NEW j \in 1 .. MaxDepth, NEW k \in 1 .. MaxDepth, j < k, Live(s, k)'
        PROVE  (frame[s][j].msg \in Above(frame[s][k].msg))'
    <3>1. s # t
      BY <2>1, <2>3 DEF Live
    <3>2. Live(s, k) /\ frame'[s][j] = frame[s][j] /\ frame'[s][k] = frame[s][k]
      BY <2>1, <2>3, <3>1 DEF Live
    <3>3. frame[s][j].msg \in Above(frame[s][k].msg)
      BY <2>3, <3>2 DEF NestInv
    <3> QED
      BY <2>1, <3>2, <3>3 DEF Above, HasParents
  <2> QED
    BY <2>2, <2>3 DEF NestInv
<1>2. ASSUME NEW t \in Threads, NEW i \in Ids, LogReenters(t, i) PROVE NestInv'
  <2>1. PICK d \in 1 .. MaxDepth : d = depth[t] /\ d + 1 \in 1 .. MaxDepth
    <3>1. depth[t] \in 1 .. MaxDepth - 1
      BY <1>2, ReenterFrames
    <3> QED
      BY <3>1, BoundsAssumption
  <2>2. PICK x \in Msgs : x = Top(t).msg /\ x = frame[t][d].msg /\ x \in 1 .. created
    BY <1>2, <2>1, TopType DEF LogReenters, At
  <2>3. PICK c \in Msgs : c = created + 1 /\ created' = c
    BY <1>2, ReenterFrames DEF LogReenters
  <2>4. c > created /\ x # c /\ created \in Nat
    BY <2>2, <2>3 DEF TypeOK, HistoryType
  <2>5. parent[c] = 0 /\ parent'[c] = x /\ \A m \in Msgs : m # c => parent'[m] = parent[m]
    BY <1>2, <2>2, <2>3, <2>4 DEF LogReenters, NestInv, TypeOK, HistoryType
  <2>6. /\ frame'[t][d + 1].msg = c /\ frame'[t][d].msg = x /\ depth'[t] = d + 1
        /\ \A s \in Threads : s # t => depth'[s] = depth[s]
        /\ \A s \in Threads, k \in 1 .. MaxDepth :
              s # t \/ k \notin {d, d + 1} => frame'[s][k] = frame[s][k]
    <3>1. /\ frame'[t][d + 1] = Fresh(c) /\ frame'[t][d].msg = x /\ depth'[t] = d + 1
          /\ \A s \in Threads : s # t => depth'[s] = depth[s]
          /\ \A s \in Threads, k \in 1 .. MaxDepth :
                s # t \/ k \notin {d, d + 1} => frame'[s][k] = frame[s][k]
      BY <1>2, <2>1, <2>2, <2>3, ReenterFrames, ZenonT(60)
    <3> QED
      BY <3>1, FreshType
  <2>7. \A n \in Msgs : n # c => Above(n) \subseteq Above(n)'
    BY <2>5, AboveGrows
  <2>8. x \in Above(c)' /\ Above(x) \subseteq Above(c)'
    <3>1. x \in Above(c)' /\ Above(x)' \subseteq Above(c)'
      <4>1. x # 0
        BY DEF Msgs
      <4>2. x \in Above(c)'
        BY <2>5, <4>1 DEF Above
      <4>3. ASSUME NEW m \in Above(x)' PROVE m \in Above(c)'
        <5> SUFFICES ASSUME NEW S \in SUBSET Msgs, parent'[c] \in S \cup {0}, HasParents(S)'
                     PROVE  m \in S
          BY <4>3 DEF Above
        <5>1. parent'[x] \in S \cup {0}
          BY <2>5, <4>1 DEF HasParents
        <5> QED
          BY <4>3, <5>1 DEF Above
      <4> QED
        BY <4>2, <4>3
    <3> QED
      BY <2>4, <2>7, <3>1
  <2>9. \A m \in Msgs : m > created' => parent'[m] = 0
    <3>1. ASSUME NEW m \in Msgs, m > created' PROVE parent'[m] = 0
      <4>1. m # c /\ m > created
        BY <2>3, <2>4, <3>1 DEF Msgs
      <4> QED
        BY <2>5, <4>1 DEF NestInv
    <3> QED
      BY <3>1
  <2>10. ASSUME NEW s \in Threads, NEW j \in 1 .. MaxDepth, NEW k \in 1 .. MaxDepth, j < k, Live(s, k)'
         PROVE  (frame[s][j].msg \in Above(frame[s][k].msg))'
    <3>1. CASE s = t /\ k = d + 1
      <4>1. frame'[t][j].msg = frame[t][j].msg /\ frame'[t][k].msg = c
        BY <2>1, <2>2, <2>6, <2>10, <3>1
      <4>2. frame[t][j].msg = x \/ frame[t][j].msg \in Above(x)
        BY <2>1, <2>2, <2>10, <3>1 DEF NestInv, Live
      <4>3. frame'[t][j].msg \in Above(c)'
        BY <2>8, <4>1, <4>2
      <4> QED
        BY <3>1, <4>1, <4>3 DEF Above, HasParents
    <3>2. CASE ~(s = t /\ k = d + 1)
      <4>1. Live(s, k)
        BY <2>1, <2>6, <2>10, <3>2 DEF Live
      <4>2. frame'[s][j].msg = frame[s][j].msg /\ frame'[s][k].msg = frame[s][k].msg
        BY <2>1, <2>2, <2>6, <2>10, <3>2, <4>1 DEF Live
      <4>3. PICK n \in Msgs : n = frame[s][k].msg /\ n # c
        <5>1. frame[s][k].msg \in 1 .. created
          BY <4>1 DEF Live, TypeOK, CallsType
        <5> QED
          BY <2>3, <2>4, <5>1, BoundsAssumption DEF Msgs
      <4>4. frame[s][j].msg \in Above(n)'
        BY <2>7, <2>10, <4>1, <4>3 DEF NestInv
      <4> QED
        BY <4>2, <4>3, <4>4 DEF Above, HasParents
    <3> QED
      BY <3>1, <3>2
  <2> QED
    BY <2>9, <2>10 DEF NestInv
<1>3. ASSUME NEW t \in Threads, Step(t), ~\E i \in Ids : LogReenters(t, i) PROVE NestInv'
  BY <1>3, CallStep, StepNest
<1>4. ASSUME UNCHANGED <<depth, frame, created, parent>> PROVE NestInv'
  BY <1>4, KeepNest DEF Live, TypeOK, CallsType
<1>5. ASSUME \/ \E new \in SUBSET Ids : StartMessageFacility(new)
             \/ EndMessageFacility \/ FinalShutdown \/ UNCHANGED vars
      PROVE  NestInv'
  BY <1>4, <1>5 DEF StartMessageFacility, EndMessageFacility, FinalShutdown, vars, history
<1> QED
  BY <1>1, <1>2, <1>3, <1>5, Zenon DEF Next

\* While nothing new is offered, only a message that was offered to nobody
\* may start to be sent.
LEMMA KeepOrder ==
    ASSUME OrderInv, offered' = offered,
           \A n \in 1 .. created : n \in Msgs /\ Above(n) \subseteq Above(n)',
           \A n \in Msgs : n > created => OfferedTo(n) = {},
           \A n \in Msgs : n > created \/ n \in 1 .. created,
           \A t \in Threads, k \in 1 .. MaxDepth : Live(t, k)' /\ frame'[t][k].pc = "send" =>
              \/ /\ Live(t, k) /\ frame[t][k].pc = "send"
                 /\ frame'[t][k].msg = frame[t][k].msg
              \/ OfferedTo(frame[t][k].msg)' = {}
    PROVE  OrderInv'
<1>1. \A i \in Ids : \A m, n : Before(i, m, n)' <=> Before(i, m, n)
  BY DEF Before
<1>2. ASSUME NEW i \in Ids, NEW m \in Msgs, NEW n \in Msgs, Before(i, m, n)
      PROVE  m \in 1 .. created /\ n \in 1 .. created
  <2>1. i \in OfferedTo(m) /\ i \in OfferedTo(n)
    BY <1>2 DEF Before, OfferedTo
  <2> QED
    BY <2>1
<1>3. ASSUME NEW t \in Threads, NEW k \in 1 .. MaxDepth, Live(t, k)', frame'[t][k].pc = "send",
             NEW i \in Ids, NEW n \in Msgs, Before(i, frame[t][k].msg, n)'
      PROVE  (frame[t][k].msg \in Above(n))'
  <2>1. PICK x : x = frame'[t][k].msg
    OBVIOUS
  <2>2. Before(i, x, n)
    BY <1>3, <2>1 DEF Before
  <2>3. CASE OfferedTo(frame[t][k].msg)' = {}
    BY <1>3, <2>3 DEF Before, OfferedTo
  <2>4. CASE /\ Live(t, k) /\ frame[t][k].pc = "send"
             /\ frame'[t][k].msg = frame[t][k].msg
    <3>1. x \in Above(n)
      BY <2>1, <2>2, <2>4 DEF OrderInv
    <3>2. n \in 1 .. created
      <4>1. i \in OfferedTo(n)
        BY <2>2 DEF Before, OfferedTo
      <4> QED
        BY <4>1
    <3> QED
      BY <2>1, <3>1, <3>2
  <2> QED
    BY <1>3, <2>3, <2>4
<1>4. ASSUME NEW i \in Ids, NEW j \in Ids, NEW m \in Msgs, NEW n \in Msgs,
             Before(i, m, n)', Before(j, n, m)'
      PROVE  m \in Above(n)' \/ n \in Above(m)'
  <2>1. m \in Above(n) \/ n \in Above(m)
    BY <1>1, <1>4 DEF OrderInv
  <2>2. m \in 1 .. created /\ n \in 1 .. created
    BY <1>1, <1>2, <1>4
  <2> QED
    BY <2>1, <2>2
<1> QED
  BY <1>3, <1>4 DEF OrderInv

\* The innermost call offers its message x to destination i.
LEMMA AppendOrder ==
    ASSUME TypeOK, LockInv, NestInv, OrderInv,
           NEW t \in Threads, NEW d \in 1 .. MaxDepth, d = depth[t],
           Live(t, d), frame[t][d].pc = "send", NEW x \in Msgs, x = frame[t][d].msg,
           NEW i \in Ids, i \notin OfferedTo(x), offered' = [offered EXCEPT ![i] = Append(@, x)],
           \A n \in 1 .. created : n \in Msgs /\ Above(n) \subseteq Above(n)',
           \A n \in Msgs : n > created => OfferedTo(n) = {},
           \A n \in Msgs : n > created \/ n \in 1 .. created,
           \A s \in Threads, k \in 1 .. MaxDepth : Live(s, k)' /\ frame'[s][k].pc = "send" =>
              /\ Live(s, k) /\ frame[s][k].pc = "send"
              /\ frame'[s][k].msg = frame[s][k].msg
    PROVE  OrderInv'
<1>1. /\ offered[i] \in Seq(Msgs)
      /\ offered'[i] = Append(offered[i], x)
      /\ \A j \in Ids : j # i => offered'[j] = offered[j]
  BY DEF TypeOK, HistoryType
<1>2. PICK l \in Nat : l = Len(offered[i])
  BY <1>1
<1>3. /\ DOMAIN offered'[i] = 1 .. l + 1 /\ DOMAIN offered[i] = 1 .. l
      /\ offered'[i][l + 1] = x
      /\ \A p \in 1 .. l : offered'[i][p] = offered[i][p] /\ offered[i][p] # x
  <2>1. \A p \in 1 .. l : offered[i][p] # x
    BY <1>1, <1>2 DEF OfferedTo
  <2> QED
    BY <1>1, <1>2, <2>1
\* The message comes after those that i has had, and before none.
<1>4. ASSUME NEW j \in Ids, NEW m, NEW n, Before(j, m, n)'
      PROVE  Before(j, m, n) \/ (j = i /\ n = x /\ m # x)
  <2>1. CASE j # i
    BY <1>1, <1>4, <2>1 DEF Before
  <2>2. CASE j = i
    <3>1. PICK p \in 1 .. l + 1, q \in 1 .. l + 1 :
             p < q /\ offered'[i][p] = m /\ offered'[i][q] = n
      BY <1>3, <1>4, <2>2 DEF Before
    <3>2. p \in 1 .. l
      BY <3>1
    <3>3. CASE q = l + 1
      BY <1>3, <2>2, <3>1, <3>2, <3>3
    <3>4. CASE q \in 1 .. l
      BY <1>3, <2>2, <3>1, <3>2, <3>4 DEF Before
    <3> QED
      BY <3>1, <3>3, <3>4
  <2> QED
    BY <2>1, <2>2
<1>5. ASSUME NEW j \in Ids, NEW m \in Msgs, NEW n \in Msgs, Before(j, m, n)
      PROVE  m \in 1 .. created /\ n \in 1 .. created
  <2>1. j \in OfferedTo(m) /\ j \in OfferedTo(n)
    BY <1>5 DEF Before, OfferedTo
  <2> QED
    BY <2>1
<1>6. x \in 1 .. created
  BY DEF Live, TypeOK, CallsType
<1>7. ASSUME NEW s \in Threads, NEW k \in 1 .. MaxDepth, Live(s, k)', frame'[s][k].pc = "send",
             NEW j \in Ids, NEW n \in Msgs, Before(j, frame[s][k].msg, n)'
      PROVE  (frame[s][k].msg \in Above(n))'
  <2>1. PICK y : y = frame'[s][k].msg /\ y = frame[s][k].msg
    BY <1>7
  <2>2. Live(s, k) /\ frame[s][k].pc = "send" /\ y \in Msgs
    <3>1. Live(s, k) /\ frame[s][k].pc = "send"
      BY <1>7
    <3>2. frame[s][k].msg \in 1 .. created
      BY <3>1 DEF Live, TypeOK, CallsType
    <3> QED
      BY <2>1, <3>1, <3>2
  <2>3. Before(j, y, n) \/ (j = i /\ n = x /\ y # x)
    <3>1. Before(j, y, n)'
      BY <1>7, <2>1 DEF Before
    <3> QED
      BY <1>4, <3>1
  <2>4. CASE Before(j, y, n)
    <3>1. y \in Above(n)
      BY <2>1, <2>2, <2>4 DEF OrderInv
    <3>2. y \in Above(n)'
      BY <1>5, <2>2, <2>4, <3>1
    <3> QED
      BY <2>1, <3>2
  <2>5. CASE j = i /\ n = x /\ y # x
    <3>1. s = t
      <4>1. mutex.owner = s
        BY <2>2 DEF LockInv, InSection, Live
      <4>2. mutex.owner = t
        BY DEF LockInv, InSection, Live
      <4> QED
        BY <4>1, <4>2
    <3>2. k < d
      <4>1. k <= d /\ k # d
        BY <2>1, <2>2, <2>5, <3>1 DEF Live
      <4> QED
        BY <4>1
    <3>3. y \in Above(x)
      BY <2>1, <3>1, <3>2 DEF NestInv
    <3>4. y \in Above(n)'
      BY <1>6, <2>5, <3>3
    <3> QED
      BY <2>1, <3>4
  <2> QED
    BY <2>3, <2>4, <2>5
\* What came after x elsewhere is below it: x is still being sent.
<1>8. ASSUME NEW j \in Ids, NEW m \in Msgs, Before(j, x, m) PROVE x \in Above(m)'
  <2>1. x \in Above(m)
    BY <1>8 DEF OrderInv
  <2> QED
    BY <1>5, <1>8, <2>1
<1>9. ASSUME NEW j \in Ids, NEW k \in Ids, NEW m \in Msgs, NEW n \in Msgs,
             Before(j, m, n)', Before(k, n, m)'
      PROVE  m \in Above(n)' \/ n \in Above(m)'
  <2>1. CASE Before(j, m, n) /\ Before(k, n, m)
    <3>1. m \in Above(n) \/ n \in Above(m)
      BY <2>1 DEF OrderInv
    <3> QED
      BY <1>5, <2>1, <3>1
  <2>2. CASE ~Before(j, m, n)
    <3>1. n = x /\ m # x
      BY <1>4, <1>9, <2>2
    <3>2. Before(k, x, m)
      BY <1>4, <1>9, <3>1
    <3> QED
      BY <1>8, <3>1, <3>2
  <2>3. CASE ~Before(k, n, m)
    <3>1. m = x /\ n # x
      BY <1>4, <1>9, <2>3
    <3>2. Before(j, x, n)
      BY <1>4, <1>9, <3>1
    <3> QED
      BY <1>8, <3>1, <3>2
  <2> QED
    BY <2>1, <2>2, <2>3
<1> QED
  BY <1>7, <1>9 DEF OrderInv

\* The innermost call of t enters log() of destination i: it offers its
\* message, unless it has before.
LEMMA EnteredOrder ==
    ASSUME TypeOK, LockInv, DeliveryInv, NestInv, OrderInv, NEW t \in Threads, NEW i \in Ids,
           At(t, "send"), IsNext(Top(t), i), Entered(Top(t), i),
           \A n \in 1 .. created : n \in Msgs /\ Above(n) \subseteq Above(n)',
           \A s \in Threads, k \in 1 .. MaxDepth : Live(s, k)' /\ frame'[s][k].pc = "send" =>
              /\ Live(s, k) /\ frame[s][k].pc = "send"
              /\ frame'[s][k].msg = frame[s][k].msg
    PROVE  OrderInv'
<1>1. PICK d \in 1 .. MaxDepth : d = depth[t]
  BY TopType DEF At
<1>2. PICK f \in Frame : f = Top(t)
  BY TopType DEF At
<1>3. PICK x \in Msgs : x = f.msg
  BY <1>2, TopType DEF At
<1>4. f = frame[t][d] /\ f.pc = "send" /\ Live(t, d) /\ f.nested \in BOOLEAN
  BY <1>1, <1>2 DEF At, Top, Live, Frame
<1>5. \A n \in Msgs : n > created => OfferedTo(n) = {}
  BY DEF DeliveryInv, Untouched
<1>6. \A n \in Msgs : n > created \/ n \in 1 .. created
  BY DEF Msgs, TypeOK, HistoryType
<1>7. CASE f.nested
  <2>1. offered' = offered
    BY <1>2, <1>7 DEF Entered
  <2> QED
    BY <1>5, <1>6, <2>1, KeepOrder
<1>8. CASE ~f.nested
  <2>1. offered' = [offered EXCEPT ![i] = Append(@, x)]
    BY <1>2, <1>3, <1>8 DEF Entered
  <2>2. i \notin OfferedTo(x)
    <3>1. OfferedTo(x) = Reached(f)
      BY <1>3, <1>4 DEF DeliveryInv, InHand
    <3> QED
      BY <1>2, <1>8, <3>1, ReachedNext, ZenonT(60)
  <2> QED
    BY <1>1, <1>3, <1>4, <1>5, <1>6, <2>1, <2>2, AppendOrder
<1> QED
  BY <1>7, <1>8

\* Every step keeps the order.
LEMMA NextOrder ==
    ASSUME TypeOK, TypeOK', LockInv, DeliveryInv, NestInv, OrderInv, [Next]_vars
    PROVE  OrderInv'
<1>1. \A n \in 1 .. created : n \in Msgs /\ Above(n) \subseteq Above(n)'
  BY NextAbove
<1>2. \A n \in Msgs : n > created => OfferedTo(n) = {}
  BY DEF DeliveryInv, Untouched
<1>3. \A n \in Msgs : n > created \/ n \in 1 .. created
  BY DEF Msgs, TypeOK, HistoryType
<1>4. ASSUME NEW t \in Threads, Release(t) PROVE OrderInv'
  <2>1. /\ depth[t] = 0 /\ depth'[t] = 1
        /\ \A s \in Threads : s # t => depth'[s] = depth[s]
        /\ frame'[t][1] = Fresh(created + 1) /\ created + 1 \in Msgs
        /\ \A s \in Threads, k \in 1 .. MaxDepth : s # t \/ k # 1 => frame'[s][k] = frame[s][k]
    BY <1>4, ReleaseFrames
  <2>2. offered' = offered /\ frame'[t][1].pc = "logErrorObj"
    BY <1>4, <2>1, FreshType DEF Release
  <2>3. \A s \in Threads, k \in 1 .. MaxDepth : Live(s, k)' /\ frame'[s][k].pc = "send" =>
           Live(s, k) /\ frame[s][k].pc = "send" /\ frame'[s][k].msg = frame[s][k].msg
    BY <2>1, <2>2 DEF Live
  <2> QED
    BY <1>1, <1>2, <1>3, <2>2, <2>3, KeepOrder
<1>5. ASSUME NEW t \in Threads, NEW i \in Ids, LogReenters(t, i) PROVE OrderInv'
  <2>1. PICK d \in 1 .. MaxDepth : d = depth[t] /\ d + 1 \in 1 .. MaxDepth
    <3>1. depth[t] \in 1 .. MaxDepth - 1
      BY <1>5, ReenterFrames
    <3> QED
      BY <3>1, BoundsAssumption
  <2>2. /\ frame'[t][d + 1] = Fresh(created + 1) /\ created + 1 \in Msgs
        /\ frame'[t][d].msg = Top(t).msg /\ depth'[t] = d + 1
        /\ \A s \in Threads : s # t => depth'[s] = depth[s]
        /\ \A s \in Threads, k \in 1 .. MaxDepth :
              s # t \/ k \notin {d, d + 1} => frame'[s][k] = frame[s][k]
    <3>1. /\ frame'[t][depth[t] + 1] = Fresh(created + 1) /\ created + 1 \in Msgs
          /\ frame'[t][depth[t]].msg = Top(t).msg /\ depth'[t] = depth[t] + 1
          /\ \A s \in Threads : s # t => depth'[s] = depth[s]
          /\ \A s \in Threads, k \in 1 .. MaxDepth :
                s # t \/ k \notin {depth[t], depth[t] + 1} => frame'[s][k] = frame[s][k]
      BY <1>5, ReenterFrames
    <3> QED
      BY <2>1, <3>1
  <2>3. frame'[t][d + 1].pc = "logErrorObj"
    BY <2>2, FreshType
  <2>4. At(t, "send") /\ IsNext(Top(t), i) /\ Entered(Top(t), i)
    BY <1>5 DEF LogReenters
  <2>5. ASSUME NEW s \in Threads, NEW k \in 1 .. MaxDepth, Live(s, k)', frame'[s][k].pc = "send"
        PROVE  Live(s, k) /\ frame[s][k].pc = "send" /\ frame'[s][k].msg = frame[s][k].msg
    <3>1. ~(s = t /\ k = d + 1)
      BY <2>3, <2>5
    <3>2. CASE s = t /\ k = d
      BY <2>1, <2>2, <2>4, <3>2 DEF At, Top, Live
    <3>3. CASE s # t \/ k \notin {d, d + 1}
      BY <2>1, <2>2, <2>5, <3>3 DEF Live
    <3> QED
      BY <3>1, <3>2, <3>3
  <2> QED
    BY <1>1, <2>4, <2>5, EnteredOrder
<1>6. ASSUME NEW t \in Threads, Step(t), ~\E i \in Ids : LogReenters(t, i) PROVE OrderInv'
  <2>1. PICK d \in 1 .. MaxDepth :
              /\ d = depth[t] /\ Live(t, d) /\ OthersKept(t, d)
              /\ Live(t, d)' => frame'[t][d].msg = frame[t][d].msg
              /\ Live(t, d)' /\ frame'[t][d].pc = "send" => frame[t][d].pc = "send" \/ Acquire(t)
    BY <1>6, CallStep
  <2>2. CASE Acquire(t)
    <3>1. offered' = offered /\ frame[t][d].pc = "lock"
      BY <2>1, <2>2 DEF Acquire, At, Top
    <3>2. OfferedTo(frame[t][d].msg) = {}
      BY <2>1, <3>1 DEF DeliveryInv, InHand, Untouched
    <3>3. Live(t, d)' => OfferedTo(frame[t][d].msg)' = {}
      BY <2>1, <3>1, <3>2 DEF OfferedTo
    <3>4. \A s \in Threads, k \in 1 .. MaxDepth : Live(s, k)' /\ frame'[s][k].pc = "send" =>
             \/ Live(s, k) /\ frame[s][k].pc = "send" /\ frame'[s][k].msg = frame[s][k].msg
             \/ OfferedTo(frame[s][k].msg)' = {}
      BY <2>1, <3>3 DEF OthersKept
    <3> QED
      BY <1>1, <1>2, <1>3, <3>1, <3>4, KeepOrder
  <2>3. CASE ~Acquire(t)
    <3>1. \A s \in Threads, k \in 1 .. MaxDepth : Live(s, k)' /\ frame'[s][k].pc = "send" =>
             Live(s, k) /\ frame[s][k].pc = "send" /\ frame'[s][k].msg = frame[s][k].msg
      BY <2>1, <2>3 DEF OthersKept
    <3>2. CASE offered' = offered
      BY <1>1, <1>2, <1>3, <3>1, <3>2, KeepOrder
    <3>3. ASSUME NEW i \in Ids, LogReturns(t, i) \/ LogThrows(t, i) PROVE OrderInv'
      <4>1. At(t, "send") /\ IsNext(Top(t), i) /\ Entered(Top(t), i)
        BY <3>3 DEF LogReturns, LogThrows
      <4> QED
        BY <1>1, <3>1, <4>1, EnteredOrder
    <3>4. LogErrorObj(t) \/ CheckPurgeMode(t) \/ AllSent(t) \/ Leave(t) => offered' = offered
      BY DEF LogErrorObj, CheckPurgeMode, AllSent, Leave, history
    <3> QED
      BY <1>6, <2>3, <3>2, <3>3, <3>4, Zenon DEF Step
  <2> QED
    BY <2>2, <2>3
<1>7. ASSUME UNCHANGED <<depth, frame, offered>> PROVE OrderInv'
  <2>1. \A s \in Threads, k \in 1 .. MaxDepth : Live(s, k)' /\ frame'[s][k].pc = "send" =>
           Live(s, k) /\ frame[s][k].pc = "send" /\ frame'[s][k].msg = frame[s][k].msg
    BY <1>7 DEF Live
  <2> QED
    BY <1>1, <1>2, <1>3, <1>7, <2>1, KeepOrder
<1>8. ASSUME \/ \E new \in SUBSET Ids : StartMessageFacility(new)
             \/ EndMessageFacility \/ FinalShutdown \/ UNCHANGED vars
      PROVE  OrderInv'
  BY <1>7, <1>8 DEF StartMessageFacility, EndMessageFacility, FinalShutdown, vars, history
<1> QED
  BY <1>4, <1>5, <1>6, <1>8, Zenon DEF Next

\* Two destinations see two messages in the same order, unless one of them was
\* logged, directly or further down, by a destination that was given the other.
THEOREM SameOrderEverywhere == Spec => []SameOrder
<1>1. Init => NestInv /\ OrderInv
  BY DEF Init, NestInv, OrderInv, Live, Before
<1>2. DispatchInv => TypeOK /\ LockInv /\ DeliveryInv
  BY DEF DispatchInv, IInv
<1>3. DispatchInv /\ DispatchInv' /\ NestInv /\ OrderInv /\ [Next]_vars => NestInv' /\ OrderInv'
  <2>1. DispatchInv' => TypeOK'
    BY DEF DispatchInv, IInv
  <2> QED
    BY <1>2, <2>1, NextNest, NextOrder
<1>4. DispatchInv /\ OrderInv => SameOrder
  <2>1. DispatchInv => 1 .. created \subseteq Msgs
    BY BoundsAssumption DEF DispatchInv, IInv, TypeOK, HistoryType, Msgs
  <2> QED
    BY <2>1 DEF OrderInv, SameOrder
<1> QED
  BY <1>1, <1>3, <1>4, DispatchInductive, PTL DEF Spec
===============================================================================
