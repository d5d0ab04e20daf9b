----------------------------- MODULE MessageLogger -----------------------------
(***************************************************************************)
(* The dispatcher of MessageLogger.cc: threads release messages, and each  *)
(* message is handed to every destination in the order of the map, under   *)
(* one recursive mutex.  The state are the file's globals (isStarted,      *)
(* destinations_, purgeMode_, count_, msgMutex_) and, for each thread, the *)
(* calls of LogErrorObj/logMessage it is in: a destination may itself log  *)
(* a message, which is why the mutex is recursive.                         *)
(*                                                                         *)
(* What a destination makes of a message is the subject of Destination;    *)
(* here log() returns, throws, or logs another message first.              *)
(***************************************************************************)
EXTENDS Integers, Sequences, FiniteSets

CONSTANTS
    Threads,         \* the threads of the program
    Ids,             \* output ids: integers that sort as the keys of the map do
    EarlyId,         \* the id of "cerr_early", which every start makes first
    CerrId,          \* the id of the destination attached when there is none
    MaxExceptions,   \* exceptions tolerated before purge mode (25 in the code)
    Throwing,        \* destinations whose log() may throw a cet::exception
    Crashing,        \* destinations whose log() may throw something else
    Reentrant,       \* destinations whose log() may log a message of its own
    MaxMsgs,         \* bound: messages released
    MaxDepth         \* bound: calls of LogErrorObj nested in one thread

\* cerr_early reacts to nothing once its threshold is the highest level, so
\* its log() just returns.
ASSUME IdsAssumption == /\ Ids \subseteq Nat \ {0} /\ EarlyId \in Ids /\ CerrId \in Ids
                        /\ Throwing \subseteq Ids \ {EarlyId}
                        /\ Crashing \subseteq Ids \ {EarlyId}
                        /\ Reentrant \subseteq Ids \ {EarlyId}
ASSUME BoundsAssumption == MaxExceptions \in Nat /\ MaxMsgs \in Nat /\ MaxDepth \in Nat \ {0}

ASSUME ThreadsAssumption == IsFiniteSet(Threads) /\ Threads # {}

CONSTANT NoThread
ASSUME NoThreadAssumption == NoThread \notin Threads

VARIABLES
    isStarted, purgeMode, count, destinations,
    mutex,      \* msgMutex_: the owning thread and how often it has locked
    depth,      \* by thread: how many calls of LogErrorObj it is in
    frame,      \* by thread and level: the state of that call
    exiting,    \* the static destructors of the library have run
    \* History.
    created,    \* how many messages have been released
    parent,     \* by message: the one whose delivery released it, or 0
    freed,      \* by message: how often it was deleted
    offered,    \* by destination: the messages whose log() was entered, in order
    audience,   \* by message: the destinations there were when it was sent
    failedAt,   \* by message: the destination that threw, or 0
    elsewhere,  \* messages printed before Start or dropped in purge mode
    late,       \* messages that got the mutex when purge mode was on
    crashed     \* something other than a cet::exception was caught

globals == <<isStarted, purgeMode, count, destinations>>
history == <<created, parent, freed, offered, audience, failedAt, elsewhere, late, crashed>>
vars == <<globals, mutex, depth, frame, exiting, history>>

Msgs == 1 .. MaxMsgs

\* Where a call is: in LogErrorObj before isStarted is read; in logMessage
\* before purgeMode_ is read; waiting for the mutex; holding it and sending;
\* about to give it up.
PCs == {"logErrorObj", "logMessage", "lock", "send", "unlock"}
Frame == [pc : PCs \cup {"none"}, msg : Msgs \cup {0}, last : Ids \cup {0}, nested : BOOLEAN]
NoFrame == [pc |-> "none", msg |-> 0, last |-> 0, nested |-> FALSE]

Init ==
    /\ isStarted = FALSE /\ purgeMode = FALSE /\ count = 0 /\ destinations = {}
    /\ mutex = [owner |-> NoThread, depth |-> 0]
    /\ depth = [t \in Threads |-> 0]
    /\ frame = [t \in Threads |-> [k \in 1 .. MaxDepth |-> NoFrame]]
    /\ exiting = FALSE
    /\ created = 0
    /\ parent = [m \in Msgs |-> 0]
    /\ freed = [m \in Msgs |-> 0]
    /\ offered = [i \in Ids |-> <<>>]
    /\ audience = [m \in Msgs |-> {}]
    /\ failedAt = [m \in Msgs |-> 0]
    /\ elsewhere = {}
    /\ late = 0
    /\ crashed = FALSE

Busy(t) == depth[t] > 0
Top(t) == frame[t][depth[t]]
At(t, pc) == Busy(t) /\ Top(t).pc = pc

\* The frames after the innermost call of t has become f.
Becomes(t, f) == frame' = [frame EXCEPT ![t][depth[t]] = f]

\* The innermost call of t returns.
Return(t) ==
    /\ depth' = [depth EXCEPT ![t] = @ - 1]
    /\ frame' = [frame EXCEPT ![t][depth[t]] = NoFrame]

Delete(m) == freed' = [freed EXCEPT ![m] = @ + 1]

(***************************************************************************)
(* A thread's calls.                                                       *)
(***************************************************************************)

\* The destructor of a MaybeLogger_ gives its message to LogErrorObj.
Release(t) ==
    /\ ~Busy(t) /\ created < MaxMsgs
    /\ created' = created + 1
    /\ depth' = [depth EXCEPT ![t] = 1]
    /\ frame' = [frame EXCEPT ![t][1] = [NoFrame EXCEPT !.pc = "logErrorObj", !.msg = created + 1]]
    /\ UNCHANGED <<globals, mutex, exiting, parent, freed, offered, audience, failedAt,
                   elsewhere, late, crashed>>

\* LogErrorObj: log the message, or print it to cerr before Start.
LogErrorObj(t) ==
    /\ At(t, "logErrorObj")
    /\ IF isStarted
       THEN /\ Becomes(t, [Top(t) EXCEPT !.pc = "logMessage"])
            /\ UNCHANGED <<depth, freed, elsewhere>>
       ELSE /\ Return(t)
            /\ Delete(Top(t).msg)
            /\ elsewhere' = elsewhere \cup {Top(t).msg}
    /\ UNCHANGED <<globals, mutex, exiting, created, parent, offered, audience, failedAt,
                   late, crashed>>

\* A slip: purge mode returns without deleting the message.
SlipPurgeLeaks(t) ==
    /\ At(t, "logMessage")
    /\ IF purgeMode
       THEN Return(t) /\ elsewhere' = elsewhere \cup {Top(t).msg}
       ELSE Becomes(t, [Top(t) EXCEPT !.pc = "lock"]) /\ UNCHANGED <<depth, elsewhere>>
    /\ UNCHANGED <<globals, mutex, exiting, created, parent, freed, offered, audience,
                   failedAt, late, crashed>>

\* A slip: nobody looks at purgeMode_.
SlipPurgeIgnored(t) ==
    /\ At(t, "logMessage")
    /\ Becomes(t, [Top(t) EXCEPT !.pc = "lock"])
    /\ UNCHANGED <<globals, mutex, depth, exiting, history>>

\* logMessage drops the message in purge mode; it looks before it locks.
CheckPurgeMode(t) ==
    /\ At(t, "logMessage")
    /\ IF purgeMode
       THEN /\ Return(t)
            /\ Delete(Top(t).msg)
            /\ elsewhere' = elsewhere \cup {Top(t).msg}
       ELSE /\ Becomes(t, [Top(t) EXCEPT !.pc = "lock"])
            /\ UNCHANGED <<depth, freed, elsewhere>>
    /\ UNCHANGED <<globals, mutex, exiting, created, parent, offered, audience, failedAt,
                   late, crashed>>

\* A slip: the mutex does not exclude anybody.
SlipLockShared(t) == mutex' = [owner |-> t, depth |-> mutex.depth + 1]

\* A slip: the mutex is not recursive.
SlipMayLock(t) == mutex.owner = NoThread

\* RecursiveMutexSentry's constructor: a thread waits for the others only.
MayLock(t) == mutex.owner \in {NoThread, t}
Lock(t) == MayLock(t) /\ mutex' = [owner |-> t, depth |-> mutex.depth + 1]

\* Slips: the mutex is given up at the first unlock, or never.
SlipUnlockAll(t) == mutex' = [owner |-> NoThread, depth |-> 0]
SlipUnlockForgotten(t) == UNCHANGED mutex

\* ... and destructor.
Unlock(t) == mutex' = IF mutex.depth = 1 THEN [owner |-> NoThread, depth |-> 0]
                                         ELSE [mutex EXCEPT !.depth = @ - 1]

Acquire(t) ==
    /\ At(t, "lock")
    /\ Lock(t)
    /\ Becomes(t, [Top(t) EXCEPT !.pc = "send"])
    /\ destinations' = IF destinations = {} THEN {CerrId} ELSE destinations
    /\ audience' = [audience EXCEPT ![Top(t).msg] = destinations']
    /\ late' = IF purgeMode THEN late + 1 ELSE late
    /\ UNCHANGED <<isStarted, purgeMode, count, depth, exiting,
                   created, parent, freed, offered, failedAt, elsewhere, crashed>>

\* A slip: the loop advances twice.
SlipRemaining(f) == {i \in destinations : i > f.last + 1}

\* The destinations sendMsgToDests has still to visit, in map order.
Remaining(f) == {i \in destinations : i > f.last}
IsNext(f, i) == i \in Remaining(f) /\ \A j \in Remaining(f) : i <= j

\* log() of destination i has been entered with the message of f.
Entered(f, i) ==
    offered' = IF f.nested THEN offered ELSE [offered EXCEPT ![i] = Append(@, f.msg)]

\* log() returns: on to the next destination.
LogReturns(t, i) ==
    /\ At(t, "send") /\ IsNext(Top(t), i)
    /\ Entered(Top(t), i)
    /\ Becomes(t, [Top(t) EXCEPT !.last = i, !.nested = FALSE])
    /\ UNCHANGED <<globals, mutex, depth, exiting,
                   created, parent, freed, audience, failedAt, elsewhere, late, crashed>>

\* log() logs a message of its own before it returns or throws.
LogReenters(t, i) ==
    /\ At(t, "send") /\ IsNext(Top(t), i)
    /\ i \in Reentrant /\ ~Top(t).nested
    /\ depth[t] < MaxDepth /\ created < MaxMsgs
    /\ Entered(Top(t), i)
    /\ created' = created + 1
    /\ parent' = [parent EXCEPT ![created + 1] = Top(t).msg]
    /\ depth' = [depth EXCEPT ![t] = @ + 1]
    /\ frame' = [frame EXCEPT
                   ![t][depth[t]] = [@ EXCEPT !.nested = TRUE],
                   ![t][depth[t] + 1] =
                      [NoFrame EXCEPT !.pc = "logErrorObj", !.msg = created + 1]]
    /\ UNCHANGED <<globals, mutex, exiting, freed, audience, failedAt, elsewhere, late, crashed>>

\* A slip: one exception too few.
SlipTooMany(n) == n >= MaxExceptions

\* So many exceptions turn on purge mode.
TooMany(n) == n > MaxExceptions

\* log() throws: no further destination gets the message, which is deleted
\* as the exception leaves the block.
LogThrows(t, i) ==
    /\ At(t, "send") /\ IsNext(Top(t), i)
    /\ Entered(Top(t), i)
    /\ failedAt' = [failedAt EXCEPT ![Top(t).msg] = i]
    /\ Delete(Top(t).msg)
    /\ Becomes(t, [Top(t) EXCEPT !.pc = "unlock", !.last = i, !.nested = FALSE])
    /\ \/ /\ i \in Throwing
          /\ count' = count + 1
          /\ purgeMode' = (purgeMode \/ TooMany(count'))
          /\ UNCHANGED crashed
       \/ /\ i \in Crashing
          /\ purgeMode' = TRUE
          /\ crashed' = TRUE
          /\ UNCHANGED count
    /\ UNCHANGED <<isStarted, destinations, mutex, depth, exiting,
                   created, parent, audience, elsewhere, late>>

\* Every destination has had the message.
AllSent(t) ==
    /\ At(t, "send") /\ Remaining(Top(t)) = {}
    /\ Delete(Top(t).msg)
    /\ Becomes(t, [Top(t) EXCEPT !.pc = "unlock"])
    /\ UNCHANGED <<globals, mutex, depth, exiting,
                   created, parent, offered, audience, failedAt,
                   elsewhere, late, crashed>>

Leave(t) ==
    /\ At(t, "unlock")
    /\ Unlock(t)
    /\ Return(t)
    /\ UNCHANGED <<globals, exiting, history>>

(***************************************************************************)
(* The life of the facility.  Start and End are called "from single-       *)
(* threaded mode only": no thread is in a call then.                       *)
(***************************************************************************)
SingleThreaded == \A t \in Threads : ~Busy(t)

\* A slip: isStarted is set before the destinations are made.
SlipStartedFirst(new) ==
    /\ SingleThreaded /\ ~isStarted /\ ~exiting
    /\ destinations' = destinations \cup new
    /\ isStarted' = TRUE
    /\ UNCHANGED <<purgeMode, count, mutex, depth, frame, exiting, history>>

\* StartMessageFacility: cerr_early is (re)made, then other destinations are
\* added to those of earlier starts.  An exception may end it anywhere before
\* isStarted is set.
StartMessageFacility(new) ==
    /\ SingleThreaded /\ ~isStarted /\ ~exiting
    /\ destinations' = destinations \cup new
    /\ \/ new = {} /\ UNCHANGED isStarted
       \/ EarlyId \in new /\ isStarted' \in BOOLEAN
    /\ UNCHANGED <<purgeMode, count, mutex, depth, frame, exiting, history>>

EndMessageFacility ==
    /\ SingleThreaded
    /\ isStarted' = FALSE
    /\ UNCHANGED <<purgeMode, count, destinations, mutex, depth, frame, exiting, history>>

\* At exit the destructor of FinalShutdown ends a facility that the program
\* left running, whatever other threads do.  (The destruction of the other
\* globals, which follows, is not modelled.)
FinalShutdown ==
    /\ ~exiting /\ exiting' = TRUE
    /\ isStarted' = FALSE
    /\ UNCHANGED <<purgeMode, count, destinations, mutex, depth, frame, history>>

Step(t) ==
    \/ LogErrorObj(t)
    \/ CheckPurgeMode(t)
    \/ Acquire(t)
    \/ \E i \in Ids : LogReturns(t, i) \/ LogReenters(t, i) \/ LogThrows(t, i)
    \/ AllSent(t)
    \/ Leave(t)

Next ==
    \/ \E t \in Threads : Release(t) \/ Step(t)
    \/ \E new \in SUBSET Ids : StartMessageFacility(new)
    \/ EndMessageFacility
    \/ FinalShutdown

Spec == Init /\ [][Next]_vars

\* A thread that is in a call goes on with it; nobody has to release messages
\* or to start the facility.  MaxMsgs bounds the messages, so a thread that
\* waits for the mutex is not overtaken for ever.
FairSpec == Spec /\ \A t \in Threads : WF_vars(Step(t))
--------------------------------------------------------------------------------

(***************************************************************************)
(* Properties.                                                             *)
(***************************************************************************)
GlobalsType ==
    /\ isStarted \in BOOLEAN /\ purgeMode \in BOOLEAN /\ count \in Nat
    /\ destinations \in SUBSET Ids
    /\ mutex \in [owner : Threads \cup {NoThread}, depth : 0 .. MaxDepth]
    /\ exiting \in BOOLEAN

CallsType ==
    /\ depth \in [Threads -> 0 .. MaxDepth]
    /\ frame \in [Threads -> [1 .. MaxDepth -> Frame]]
    /\ \A t \in Threads, k \in 1 .. MaxDepth :
          /\ k <= depth[t] => frame[t][k].pc \in PCs /\ frame[t][k].msg \in 1 .. created
          /\ k > depth[t] => frame[t][k] = NoFrame

HistoryType ==
    /\ created \in 0 .. MaxMsgs
    /\ parent \in [Msgs -> 0 .. MaxMsgs] /\ freed \in [Msgs -> Nat]
    /\ offered \in [Ids -> Seq(Msgs)]
    /\ audience \in [Msgs -> SUBSET Ids] /\ failedAt \in [Msgs -> Ids \cup {0}]
    /\ elsewhere \in SUBSET Msgs /\ late \in Nat /\ crashed \in BOOLEAN

\* Calls deeper than depth[t] are over; the others hold a released message.
TypeOK == GlobalsType /\ CallsType /\ HistoryType

\* The calls in which a thread is between locking and unlocking msgMutex_.
Locked(t) == {k \in 1 .. depth[t] : frame[t][k].pc \in {"send", "unlock"}}

\* At most one thread is inside logMessage's critical section, nested calls
\* included, and the mutex is held for exactly the calls that locked it.
MutualExclusion ==
    /\ \A s, t \in Threads : Locked(s) # {} /\ Locked(t) # {} => s = t
    /\ \A t \in Threads : Locked(t) = IF mutex.owner = t THEN 1 .. mutex.depth ELSE {}

\* The calls a thread is in that still use their message.
Using(t) == {k \in 1 .. depth[t] : frame[t][k].pc # "unlock"}

\* Every message is deleted exactly once, on each of the five ways out of
\* LogErrorObj, and not while a call still uses it.
DeletedOnce ==
    \A m \in 1 .. created :
      freed[m] = IF \E t \in Threads : \E k \in Using(t) : frame[t][k].msg = m THEN 0 ELSE 1

OfferedTo(m) == {i \in Ids : \E p \in DOMAIN offered[i] : offered[i][p] = m}

\* A message that is gone was either printed or dropped, or it was offered
\* once to each destination there was, up to the one that threw.
Delivered ==
    /\ \A m \in 1 .. created : freed[m] > 0 =>
          /\ audience[m] = {} <=> m \in elsewhere
          /\ OfferedTo(m) = {i \in audience[m] : failedAt[m] = 0 \/ i <= failedAt[m]}
    /\ \A i \in Ids : \A p, q \in DOMAIN offered[i] : offered[i][p] = offered[i][q] => p = q

\* Two destinations see two messages in the same order, unless one was logged
\* by a destination while it was given the other, directly or further down.
Before(i, m, n) == \E p, q \in DOMAIN offered[i] : p < q /\ offered[i][p] = m /\ offered[i][q] = n
HasParents(S) == \A m \in S : parent[m] \in S \cup {0}
Above(n) == {m \in Msgs : \A S \in SUBSET Msgs :
                            parent[n] \in S \cup {0} /\ HasParents(S) => m \in S}
SameOrder ==
    \A i, j \in Ids, m, n \in 1 .. created :
       Before(i, m, n) /\ Before(j, n, m) => m \in Above(n) \/ n \in Above(m)

\* Purge mode is on if and only if it had to be, and so for ever.
PurgeJustified == purgeMode <=> crashed \/ count > MaxExceptions

\* Once purge mode is announced, at most the threads that had looked at
\* purgeMode_ before still get a message to the destinations, one each.
PurgeDrains == late < Cardinality(Threads)

\* The branch of sendMsgToDests for an empty map is never taken: a call past
\* LogErrorObj's test has destinations, whatever Start and End did.
HasDestinations ==
    \A t \in Threads : Busy(t) /\ Top(t).pc # "logErrorObj" => destinations # {}

\* No deadlock, of one thread with itself or of several: a thread that is in a
\* call can go on with it, or waits for the mutex of a thread that can.
CanGoOn(t) ==
    /\ Busy(t)
    /\ At(t, "lock") => MayLock(t)
    /\ At(t, "send") => Remaining(Top(t)) = {} \/ \E i \in Ids : IsNext(Top(t), i)
NobodyStuck ==
    \A t \in Threads : Busy(t) =>
       \/ CanGoOn(t)
       \/ At(t, "lock") /\ \E s \in Threads : mutex.owner = s /\ CanGoOn(s)

\* "MessageLogger will no longer be processing messages" (MessageLogger.cc:451).
NoneAfterPurge == late = 0

\* Whatever destinations throw, log themselves, or threads do: a released
\* message is eventually deleted, so no thread is stuck on the mutex.
EveryMessageEnds == \A m \in Msgs : created >= m ~> freed[m] = 1
===============================================================================
