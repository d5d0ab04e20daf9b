----------------------------- MODULE StartupProofs -----------------------------
(***************************************************************************)
(* What Starts and Ends leave behind, whatever the configurations are and  *)
(* however many Starts fail.                                               *)
(***************************************************************************)
EXTENDS Startup, FiniteSetTheorems, TLAPS

(***************************************************************************)
(* The inductive invariant.                                                *)
(***************************************************************************)
\* What is stored of an entry, and the state made of such records.
Specs == {Completed(e) : e \in Possible} \cup {DefaultDestination("cerr_early")}
DestinationType == [kind : {"ordinary", "statistics"}, entry : Specs, loud : BOOLEAN]
CallType == [phase : Phases, todo : SUBSET Possible, ids : SUBSET Outputs, errors : SUBSET Specs]

StateType ==
    /\ isStarted \in BOOLEAN /\ cleanSlate \in BOOLEAN
    /\ call \in CallType
    /\ config \in Configurations \cup {Absent}
    /\ destinations \in [DOMAIN destinations -> DestinationType]
    /\ DOMAIN destinations \subseteq Outputs /\ IsFiniteSet(DOMAIN destinations)
    /\ made \subseteq DOMAIN destinations

\* What is in the map could be made.
Makeable(d) == /\ d.entry.plugin /\ d.entry.valid
               /\ d.kind = "statistics" => d.entry.type \in StatisticsTypes
StoredInv == \A id \in DOMAIN destinations : Makeable(destinations[id])

\* cerr_early is there, and quiet, from the tables on.
EarlyInv ==
    /\ call.phase = "early" => made = {}
    /\ call.phase = "configure" => made = {Early}
    /\ InTable => Early \in DOMAIN destinations /\ destinations[Early].loud = FALSE
    /\ isStarted => call = Idle
    /\ EarlySilent

\* The slate is clean as long as only cerr_early was made in earlier Starts.
SlateInv ==
    /\ ~cleanSlate => DOMAIN destinations \ {Early} # {}
    /\ CleanSlate

\* An instruction is followed or was reported.
Settled(e) == \/ /\ OutputId(Completed(e)) \in made
                 /\ destinations[OutputId(Completed(e))].entry = Completed(e)
              \/ Completed(e) \in reported

\* The entries of the current table that are no longer to do are settled, or
\* had errors; those of the tables before are settled.
Table == IF call.phase = "ordinary" THEN OrdinaryDests(config) ELSE StatDests(config)
Distinct(S) == \A e, f \in S : OutputId(Completed(e)) = OutputId(Completed(f)) => e = f
TableInv ==
    /\ call.phase # "none" \/ isStarted => config \in Configurations
    /\ InTable => /\ call.todo \subseteq Table
                  /\ \A e \in Table \ call.todo : Settled(e) \/ Completed(e) \in call.errors
    /\ call.phase = "statistics" =>
          /\ \A e \in OrdinaryDests(config) : Settled(e)
          /\ \A e \in Table \ call.todo : OutputId(Completed(e)) \in call.ids
          /\ Distinct(Table \ call.todo)
    /\ isStarted => /\ \A e \in OrdinaryDests(config) \cup StatDests(config) : Settled(e)
                    /\ Distinct(StatDests(config))

IInv == StateType /\ StoredInv /\ EarlyInv /\ SlateInv /\ TableInv

--------------------------------------------------------------------------------
(***************************************************************************)
(* Entries and outputs.                                                    *)
(***************************************************************************)
\* The tables of a configuration have possible entries.
LEMMA TablesPossible ==
    ASSUME NEW c \in Configurations
    PROVE  OrdinaryDests(c) \subseteq Possible /\ StatDests(c) \subseteq Possible
<1>1. c.ordinary \subseteq Entries
  BY DEF Entries
<1>2. c.statistics # Absent => c.statistics \subseteq Entries
  BY DEF Entries
<1> QED
  BY <1>1, <1>2 DEF OrdinaryDests, StatDests, Possible

\* An entry that is completed has an output, and is a proper record.
LEMMA CompletedType ==
    ASSUME NEW e \in Possible
    PROVE  Completed(e) \in Specs /\ OutputId(Completed(e)) \in Outputs
BY DEF Specs, Outputs

\* A map with cerr_early in it has nothing else if it has one element.
LEMMA OnlyElement ==
    ASSUME NEW S, IsFiniteSet(S), NEW x \in S
    PROVE  Cardinality(S) <= 1 <=> S \ {x} = {}
<1>1. /\ IsFiniteSet(S \ {x}) /\ Cardinality(S \ {x}) = Cardinality(S) - 1
      /\ Cardinality(S) \in Nat /\ Cardinality(S \ {x}) \in Nat
  BY FS_RemoveElement, FS_CardinalityType
<1>2. Cardinality(S \ {x}) = 0 <=> S \ {x} = {}
  BY <1>1, FS_EmptySet
<1> QED
  BY <1>1, <1>2

\* What At sets up.
LEMMA AtType ==
    ASSUME NEW phase \in Phases, NEW todo \in SUBSET Possible
    PROVE  /\ At(phase, todo) \in CallType
           /\ At(phase, todo).phase = phase /\ At(phase, todo).todo = todo
           /\ At(phase, todo).errors = {} /\ At(phase, todo).ids = {}
BY DEF At, CallType

\* No call is under way.
LEMMA IdleType == Idle \in CallType /\ Idle.phase = "none"
BY AtType DEF Idle, Phases

\* Storing a destination keeps the others.
LEMMA StoreKeeps ==
    ASSUME StateType, NEW id \in Outputs, NEW kind \in {"ordinary", "statistics"}, NEW e \in Specs,
           Store(id, kind, e)
    PROVE  /\ destinations' \in [DOMAIN destinations' -> DestinationType]
           /\ DOMAIN destinations' = DOMAIN destinations \cup {id}
           /\ DOMAIN destinations' \subseteq Outputs /\ IsFiniteSet(DOMAIN destinations')
           /\ destinations'[id] = [kind |-> kind, entry |-> e, loud |-> TRUE]
           /\ \A x \in DOMAIN destinations : x # id => destinations'[x] = destinations[x]
           /\ made' = made \cup {id}
<1>1. /\ destinations' = [x \in DOMAIN destinations \cup {id} |->
                            IF x = id THEN [kind |-> kind, entry |-> e, loud |-> TRUE]
                                      ELSE destinations[x]]
      /\ made' = made \cup {id}
  BY DEF Store
<1>2. [kind |-> kind, entry |-> e, loud |-> TRUE] \in DestinationType
  BY DEF DestinationType
<1>3. DOMAIN destinations' = DOMAIN destinations \cup {id}
  BY <1>1
<1>4. IsFiniteSet(DOMAIN destinations \cup {id})
  BY FS_AddElement DEF StateType
<1> QED
  BY <1>1, <1>2, <1>3, <1>4 DEF StateType

\* One turn of makeDestinations's loop: the entry is settled or has an error,
\* and what was in the map stays.
LEMMA MakeStep ==
    ASSUME IInv, InTable, NEW o \in call.todo, Make(o), NEW e, e = Completed(o),
           NEW out, out = OutputId(e)
    PROVE  /\ e \in Specs /\ out \in Outputs
           /\ call' \in CallType /\ call'.phase = call.phase /\ call'.todo = call.todo \ {o}
           /\ call'.ids = call.ids \cup {out} /\ call.errors \subseteq call'.errors
           /\ reported \subseteq reported'
           /\ call.phase = "statistics" => out \notin call.ids
           /\ UNCHANGED <<isStarted, cleanSlate, config>>
           /\ \/ destinations' = destinations /\ made' = made /\ (e \in reported' \/ e \in call'.errors)
              \/ /\ out \notin DOMAIN destinations /\ Store(out, call.phase, e)
                 /\ Makeable([kind |-> call.phase, entry |-> e, loud |-> TRUE])
<1>1. o \in Possible /\ call \in CallType
  BY DEF IInv, StateType, CallType
<1>2. e \in Specs /\ out \in Outputs
  BY <1>1, CompletedType
<1>3. /\ ~Rejected(e) /\ UNCHANGED <<isStarted, cleanSlate, config>>
      /\ \/ /\ Taken(e)
            /\ reported' = Report(e)
            /\ call' = [call EXCEPT !.todo = @ \ {o}, !.ids = @ \cup {out}]
            /\ UNCHANGED <<destinations, made>>
         \/ /\ ~Taken(e) /\ e.valid
            /\ Store(out, call.phase, e)
            /\ call' = [call EXCEPT !.todo = @ \ {o}, !.ids = @ \cup {out}]
            /\ UNCHANGED reported
         \/ /\ ~Taken(e) /\ ~e.valid
            /\ call' = [call EXCEPT !.todo = @ \ {o}, !.ids = @ \cup {out}, !.errors = @ \cup {e}]
            /\ UNCHANGED <<destinations, made, reported>>
  BY Zenon DEF Make
<1>4. PICK f : f = [call EXCEPT !.todo = @ \ {o}, !.ids = @ \cup {out}]
  OBVIOUS
<1>5. f \in CallType /\ f.phase = call.phase /\ f.todo = call.todo \ {o}
      /\ f.ids = call.ids \cup {out} /\ f.errors = call.errors
  BY <1>1, <1>2, <1>4 DEF CallType
<1>6. PICK g : g = [call EXCEPT !.todo = @ \ {o}, !.ids = @ \cup {out}, !.errors = @ \cup {e}]
  OBVIOUS
<1>7. g \in CallType /\ g.phase = call.phase /\ g.todo = call.todo \ {o}
      /\ g.ids = call.ids \cup {out} /\ g.errors = call.errors \cup {e}
  BY <1>1, <1>2, <1>6 DEF CallType
<1>8. call.phase = "statistics" => out \notin call.ids
  BY <1>3 DEF Rejected, Repeated
<1>9. CASE Taken(e) /\ reported' = Report(e) /\ call' = f /\ UNCHANGED <<destinations, made>>
  BY <1>2, <1>3, <1>5, <1>8, <1>9 DEF Report
<1>10. CASE ~Taken(e) /\ e.valid /\ Store(out, call.phase, e) /\ call' = f /\ UNCHANGED reported
  <2>1. out \notin DOMAIN destinations
    BY <1>10 DEF Taken
  <2>2. e.plugin
    BY <1>3, <2>1, Zenon DEF Rejected
  <2>3. call.phase = "statistics" => e.type \in StatisticsTypes
    BY <1>3 DEF Rejected, Unsupported
  <2>4. Makeable([kind |-> call.phase, entry |-> e, loud |-> TRUE])
    BY <1>10, <2>2, <2>3 DEF Makeable
  <2> QED
    BY <1>2, <1>3, <1>5, <1>8, <1>10, <2>1, <2>4
<1>11. CASE ~Taken(e) /\ ~e.valid /\ call' = g /\ UNCHANGED <<destinations, made, reported>>
  BY <1>2, <1>3, <1>7, <1>8, <1>11
<1> QED
  BY <1>3, <1>4, <1>6, <1>9, <1>10, <1>11

--------------------------------------------------------------------------------
(***************************************************************************)
(* The invariant is inductive: one lemma for each action.                  *)
(***************************************************************************)
\* No configuration was seen, nothing was made.
LEMMA InitIInv == ASSUME Init PROVE IInv
<1>1. /\ isStarted = FALSE /\ destinations = [id \in {} |-> Absent] /\ cleanSlate = TRUE
      /\ call = Idle /\ config = Absent /\ made = {} /\ reported = {}
  BY DEF Init
<1>2. DOMAIN destinations = {} /\ IsFiniteSet(DOMAIN destinations)
  BY <1>1, FS_EmptySet
<1>3. call \in CallType /\ call.phase = "none" /\ ~InTable
  BY <1>1, IdleType DEF InTable
<1>4. StateType
  <2>1. destinations \in [DOMAIN destinations -> DestinationType]
    BY <1>1
  <2> QED
    BY <1>1, <1>2, <1>3, <2>1 DEF StateType
<1>5. StoredInv
  BY <1>2 DEF StoredInv
<1>6. EarlyInv
  BY <1>1, <1>3 DEF EarlyInv, EarlySilent
<1>7. SlateInv
  BY <1>1, <1>3 DEF SlateInv, CleanSlate
<1>8. TableInv
  BY <1>1, <1>3 DEF TableInv
<1> QED
  BY <1>4, <1>5, <1>6, <1>7, <1>8 DEF IInv

\* An exception leaves everything as it is, but for the call.
LEMMA ThrowIInv == ASSUME IInv, ~isStarted, Throw PROVE IInv'
<1>1. call' = Idle /\ isStarted' = isStarted /\ destinations' = destinations
      /\ cleanSlate' = cleanSlate /\ config' = config /\ made' = made /\ reported' = reported
  BY DEF Throw
<1>2. call' \in CallType /\ call'.phase = "none" /\ ~InTable'
  BY <1>1, IdleType DEF InTable
<1>3. StateType'
  BY <1>1, <1>2 DEF IInv, StateType
<1>4. StoredInv'
  BY <1>1 DEF IInv, StoredInv, Makeable
<1>5. EarlyInv'
  BY <1>1, <1>2 DEF IInv, EarlyInv, EarlySilent
<1>6. SlateInv'
  BY <1>1, <1>2 DEF IInv, SlateInv, CleanSlate
<1>7. TableInv'
  BY <1>1, <1>2 DEF TableInv
<1> QED
  BY <1>3, <1>4, <1>5, <1>6, <1>7 DEF IInv

\* A Start throws only while it is under way.
LEMMA Throws ==
    ASSUME IInv, EarlyThrows \/ MakeThrows \/ TableThrows
    PROVE  ~isStarted /\ Throw
<1>1. call.phase # "none" /\ Throw
  BY DEF EarlyThrows, MakeThrows, TableThrows, InTable
<1> QED
  BY <1>1, IdleType DEF IInv, EarlyInv, StateType

\* A Start begins with nothing made.
LEMMA StartIInv == ASSUME IInv, NEW c \in Configurations, Start(c) PROVE IInv'
<1>1. /\ ~isStarted /\ call' = At("early", {}) /\ config' = c /\ made' = {} /\ reported' = {}
      /\ isStarted' = isStarted /\ destinations' = destinations /\ cleanSlate' = cleanSlate
  BY DEF Start
<1>2. call' \in CallType /\ call'.phase = "early" /\ ~InTable'
  <2>1. "early" \in Phases
    BY DEF Phases
  <2> QED
    BY <1>1, <2>1, AtType DEF InTable
<1>3. StateType'
  BY <1>1, <1>2 DEF IInv, StateType
<1>4. StoredInv'
  BY <1>1 DEF IInv, StoredInv, Makeable
<1>5. EarlyInv'
  BY <1>1, <1>2 DEF IInv, StateType, EarlyInv, EarlySilent
<1>6. SlateInv'
  BY <1>1, <1>2 DEF IInv, SlateInv, CleanSlate
<1>7. TableInv'
  BY <1>1, <1>2 DEF TableInv
<1> QED
  BY <1>3, <1>4, <1>5, <1>6, <1>7 DEF IInv

\* cerr_early is made with a proper entry.
LEMMA EarlyEntry ==
    /\ Early \in Outputs /\ DefaultDestination("cerr_early") \in Specs
    /\ Makeable([kind |-> "ordinary", entry |-> DefaultDestination("cerr_early"), loud |-> TRUE])
BY DEF Outputs, Specs, Makeable, DefaultDestination

LEMMA MakeEarlyIInv == ASSUME IInv, MakeEarly PROVE IInv'
<1>1. /\ call.phase = "early" /\ Store(Early, "ordinary", DefaultDestination("cerr_early"))
      /\ call' = At("configure", {})
      /\ isStarted' = isStarted /\ cleanSlate' = cleanSlate /\ config' = config
      /\ reported' = reported
  BY DEF MakeEarly
<1>2. call' \in CallType /\ call'.phase = "configure" /\ ~InTable'
  <2>1. "configure" \in Phases
    BY DEF Phases
  <2> QED
    BY <1>1, <2>1, AtType DEF InTable
<1>3. ~isStarted
  BY <1>1, IdleType DEF IInv, EarlyInv, StateType
<1>4. /\ destinations' \in [DOMAIN destinations' -> DestinationType]
      /\ DOMAIN destinations' = DOMAIN destinations \cup {Early}
      /\ DOMAIN destinations' \subseteq Outputs /\ IsFiniteSet(DOMAIN destinations')
      /\ destinations'[Early] = [kind |-> "ordinary", entry |-> DefaultDestination("cerr_early"),
                                 loud |-> TRUE]
      /\ \A x \in DOMAIN destinations : x # Early => destinations'[x] = destinations[x]
      /\ made' = made \cup {Early}
  BY <1>1, EarlyEntry, StoreKeeps DEF IInv
<1>5. StateType'
  <2>1. made' \subseteq DOMAIN destinations'
    BY <1>4 DEF IInv, StateType
  <2> QED
    BY <1>1, <1>2, <1>4, <2>1, Zenon DEF IInv, StateType
<1>6. StoredInv'
  <2>1. ASSUME NEW id \in DOMAIN destinations' PROVE Makeable(destinations'[id])
    <3>1. CASE id = Early
      BY <1>4, <3>1, EarlyEntry
    <3>2. CASE id # Early
      BY <1>4, <2>1, <3>2 DEF IInv, StoredInv
    <3> QED
      BY <3>1, <3>2
  <2> QED
    BY <2>1 DEF StoredInv, Makeable
<1>7. EarlyInv'
  <2>1. made' = {Early}
    BY <1>1, <1>4 DEF IInv, EarlyInv
  <2> QED
    BY <1>1, <1>2, <1>3, <2>1 DEF EarlyInv, EarlySilent
<1>8. SlateInv'
  BY <1>1, <1>2, <1>4 DEF IInv, SlateInv, CleanSlate
<1>9. TableInv'
  BY <1>1, <1>2, <1>3 DEF IInv, TableInv
<1> QED
  BY <1>5, <1>6, <1>7, <1>8, <1>9 DEF IInv

\* cerr_early is dialed down, and the slate is judged.
LEMMA ConfigureIInv == ASSUME IInv, Configure PROVE IInv'
<1>1. /\ call.phase = "configure"
      /\ cleanSlate' = (cleanSlate /\ Cardinality(DOMAIN destinations) <= 1)
      /\ destinations' = [destinations EXCEPT ![Early].loud = FALSE]
      /\ call' = At("ordinary", OrdinaryDests(config))
      /\ isStarted' = isStarted /\ config' = config /\ made' = made /\ reported' = reported
  BY DEF Configure
<1>2. config \in Configurations
  BY <1>1 DEF IInv, TableInv
<1>3. /\ call' \in CallType /\ call'.phase = "ordinary" /\ call'.todo = OrdinaryDests(config)
      /\ InTable'
  <2>1. "ordinary" \in Phases
    BY DEF Phases
  <2> QED
    BY <1>1, <1>2, <2>1, AtType, TablesPossible DEF InTable
<1>4. ~isStarted /\ made = {Early} /\ Early \in DOMAIN destinations
  BY <1>1, IdleType DEF IInv, EarlyInv, StateType
<1>5. /\ DOMAIN destinations' = DOMAIN destinations
      /\ destinations' \in [DOMAIN destinations' -> DestinationType]
      /\ destinations'[Early].loud = FALSE
      /\ \A x \in DOMAIN destinations : /\ destinations'[x].entry = destinations[x].entry
                                        /\ destinations'[x].kind = destinations[x].kind
  BY <1>1, <1>4 DEF IInv, StateType, DestinationType
<1>6. cleanSlate' <=> cleanSlate /\ DOMAIN destinations \ {Early} = {}
  BY <1>1, <1>4, OnlyElement DEF IInv, StateType
<1>7. StateType'
  <2>1. cleanSlate' \in BOOLEAN
    BY <1>1
  <2> QED
    BY <1>1, <1>3, <1>5, <2>1, Zenon DEF IInv, StateType
<1>8. StoredInv'
  BY <1>5 DEF IInv, StoredInv, Makeable
<1>9. EarlyInv'
  BY <1>1, <1>3, <1>4, <1>5 DEF EarlyInv, EarlySilent, InTable
<1>10. SlateInv'
  <2>1. DOMAIN destinations = made <=> DOMAIN destinations \ {Early} = {}
    BY <1>4
  <2>2. ~cleanSlate => DOMAIN destinations \ {Early} # {}
    BY DEF IInv, SlateInv
  <2>3. cleanSlate' <=> DOMAIN destinations' = made'
    BY <1>1, <1>5, <1>6, <2>1, <2>2
  <2>4. ~cleanSlate' => DOMAIN destinations' \ {Early} # {}
    BY <1>5, <1>6, <2>2
  <2> QED
    BY <2>3, <2>4 DEF SlateInv, CleanSlate
<1>11. TableInv'
  <2>1. Table' = OrdinaryDests(config)
    BY <1>1, <1>3 DEF Table
  <2> QED
    BY <1>1, <1>2, <1>3, <1>4, <2>1 DEF TableInv
<1> QED
  BY <1>7, <1>8, <1>9, <1>10, <1>11 DEF IInv

\* A stored destination is an entry's own: nobody else's instruction is lost.
LEMMA SettledStays ==
    ASSUME IInv, NEW e,
           reported \subseteq reported', made \subseteq made',
           \A x \in made : destinations'[x] = destinations[x],
           Settled(e)
    PROVE  Settled(e)'
BY DEF Settled

\* One turn of the loop.
LEMMA MakeIInv == ASSUME IInv, InTable, NEW o \in call.todo, Make(o) PROVE IInv'
<1> PICK e : e = Completed(o)
  OBVIOUS
<1> PICK out : out = OutputId(e)
  OBVIOUS
<1>1. /\ e \in Specs /\ out \in Outputs
      /\ call' \in CallType /\ call'.phase = call.phase /\ call'.todo = call.todo \ {o}
      /\ call'.ids = call.ids \cup {out} /\ call.errors \subseteq call'.errors
      /\ reported \subseteq reported'
      /\ call.phase = "statistics" => out \notin call.ids
      /\ UNCHANGED <<isStarted, cleanSlate, config>>
      /\ \/ destinations' = destinations /\ made' = made /\ (e \in reported' \/ e \in call'.errors)
         \/ /\ out \notin DOMAIN destinations /\ Store(out, call.phase, e)
            /\ Makeable([kind |-> call.phase, entry |-> e, loud |-> TRUE])
  BY MakeStep
<1>2. InTable' /\ ~isStarted /\ ~isStarted'
  BY <1>1, IdleType DEF IInv, EarlyInv, InTable
<1>3. Early \in DOMAIN destinations /\ destinations[Early].loud = FALSE
  BY DEF IInv, EarlyInv
<1>4. /\ destinations' \in [DOMAIN destinations' -> DestinationType]
      /\ DOMAIN destinations' \subseteq Outputs /\ IsFiniteSet(DOMAIN destinations')
      /\ DOMAIN destinations \subseteq DOMAIN destinations'
      /\ \A x \in DOMAIN destinations : destinations'[x] = destinations[x]
      /\ made \subseteq made' /\ made' \subseteq DOMAIN destinations'
      /\ DOMAIN destinations = made <=> DOMAIN destinations' = made'
      /\ \A x \in DOMAIN destinations' : Makeable(destinations'[x])
      /\ \/ e \in reported' \/ e \in call'.errors
         \/ out \in made' /\ destinations'[out].entry = e
  <2>1. made \subseteq DOMAIN destinations /\ StateType /\ \A x \in DOMAIN destinations : Makeable(destinations[x])
    BY DEF IInv, StateType, StoredInv
  <2>2. CASE destinations' = destinations /\ made' = made /\ (e \in reported' \/ e \in call'.errors)
    BY <2>1, <2>2 DEF StateType
  <2>3. CASE /\ out \notin DOMAIN destinations /\ Store(out, call.phase, e)
             /\ Makeable([kind |-> call.phase, entry |-> e, loud |-> TRUE])
    <3>1. call.phase \in {"ordinary", "statistics"}
      BY DEF InTable
    <3>2. /\ destinations' \in [DOMAIN destinations' -> DestinationType]
          /\ DOMAIN destinations' = DOMAIN destinations \cup {out}
          /\ DOMAIN destinations' \subseteq Outputs /\ IsFiniteSet(DOMAIN destinations')
          /\ destinations'[out] = [kind |-> call.phase, entry |-> e, loud |-> TRUE]
          /\ \A x \in DOMAIN destinations : x # out => destinations'[x] = destinations[x]
          /\ made' = made \cup {out}
      BY <1>1, <2>1, <2>3, <3>1, StoreKeeps
    <3>3. ASSUME NEW x \in DOMAIN destinations' PROVE Makeable(destinations'[x])
      <4>1. CASE x = out
        BY <2>3, <3>2, <4>1
      <4>2. CASE x # out
        BY <2>1, <3>2, <4>2
      <4> QED
        BY <4>1, <4>2
    <3>4. DOMAIN destinations = made <=> DOMAIN destinations' = made'
      BY <2>1, <2>3, <3>2
    <3>5. destinations'[out].entry = e /\ out \in made'
      BY <3>2
    <3>6. /\ \A x \in DOMAIN destinations : destinations'[x] = destinations[x]
          /\ made \subseteq made' /\ made' \subseteq DOMAIN destinations'
          /\ DOMAIN destinations \subseteq DOMAIN destinations'
      BY <2>1, <2>3, <3>2
    <3> QED
      BY <3>2, <3>3, <3>4, <3>5, <3>6
  <2> QED
    BY <1>1, <2>2, <2>3
<1>5. StateType'
  BY <1>1, <1>4, Zenon DEF IInv, StateType
<1>6. StoredInv'
  BY <1>4 DEF StoredInv, Makeable
<1>7. EarlyInv'
  BY <1>1, <1>2, <1>3, <1>4 DEF EarlyInv, EarlySilent, InTable
<1>8. SlateInv'
  BY <1>1, <1>2, <1>4 DEF IInv, SlateInv, CleanSlate
<1>9. TableInv'
  <2>1. Table' = Table
    BY <1>1 DEF Table
  <2>2. ASSUME NEW f, Settled(f) PROVE Settled(f)'
    <3>1. \A x \in made : destinations'[x] = destinations[x]
      BY <1>4 DEF IInv, StateType
    <3> QED
      BY <1>1, <1>4, <2>2, <3>1, SettledStays
  <2>3. Settled(o)' \/ Completed(o) \in call'.errors
    BY <1>4 DEF Settled
  <2>4. /\ config \in Configurations /\ call.todo \subseteq Table
        /\ \A f \in Table \ call.todo : Settled(f) \/ Completed(f) \in call.errors
        /\ call.phase = "statistics" =>
              /\ \A f \in OrdinaryDests(config) : Settled(f)
              /\ \A f \in Table \ call.todo : OutputId(Completed(f)) \in call.ids
              /\ Distinct(Table \ call.todo)
    BY Zenon DEF IInv, TableInv, InTable
  <2>5. Table' \ call'.todo = (Table \ call.todo) \cup {o}
    BY <1>1, <2>1, <2>4
  <2>6. \A f \in Table' \ call'.todo : Settled(f)' \/ Completed(f) \in call'.errors
    BY <1>1, <2>2, <2>3, <2>4, <2>5
  <2>7. ASSUME call'.phase = "statistics"
        PROVE  /\ \A f \in OrdinaryDests(config') : Settled(f)'
               /\ \A f \in Table' \ call'.todo : OutputId(Completed(f)) \in call'.ids
               /\ Distinct(Table' \ call'.todo)
    <3>1. \A f \in OrdinaryDests(config') : Settled(f)'
      BY <1>1, <2>2, <2>4, <2>7
    <3>2. \A f \in Table' \ call'.todo : OutputId(Completed(f)) \in call'.ids
      BY <1>1, <2>4, <2>5, <2>7
    <3>3. Distinct(Table' \ call'.todo)
      BY <1>1, <2>4, <2>5, <2>7 DEF Distinct
    <3> QED
      BY <3>1, <3>2, <3>3
  <2>8. call'.todo \subseteq Table' /\ config' \in Configurations
    BY <1>1, <2>1, <2>4
  <2> QED
    BY <1>2, <2>6, <2>7, <2>8 DEF TableInv, Distinct
<1> QED
  BY <1>5, <1>6, <1>7, <1>8, <1>9 DEF IInv

\* The ordinary table is settled: on to the statistics.
LEMMA EndOfOrdinaryIInv == ASSUME IInv, EndOfOrdinary PROVE IInv'
<1>1. /\ call.phase = "ordinary" /\ call.todo = {} /\ call.errors = {}
      /\ call' = At("statistics", StatDests(config))
      /\ isStarted' = isStarted /\ destinations' = destinations /\ cleanSlate' = cleanSlate
      /\ config' = config /\ made' = made /\ reported' = reported
  BY DEF EndOfOrdinary
<1>2. config \in Configurations /\ InTable
  BY <1>1 DEF IInv, TableInv, InTable
<1>3. /\ call' \in CallType /\ call'.phase = "statistics" /\ call'.todo = StatDests(config)
      /\ InTable'
  <2>1. "statistics" \in Phases
    BY DEF Phases
  <2> QED
    BY <1>1, <1>2, <2>1, AtType, TablesPossible DEF InTable
<1>4. ~isStarted
  BY <1>1, IdleType DEF IInv, EarlyInv
<1>5. StateType'
  BY <1>1, <1>3 DEF IInv, StateType
<1>6. StoredInv'
  BY <1>1 DEF IInv, StoredInv, Makeable
<1>7. EarlyInv'
  BY <1>1, <1>2, <1>3, <1>4 DEF IInv, EarlyInv, EarlySilent
<1>8. SlateInv'
  BY <1>1, <1>2, <1>3 DEF IInv, SlateInv, CleanSlate
<1>9. TableInv'
  <2>1. Table' = StatDests(config) /\ Table = OrdinaryDests(config)
    BY <1>1, <1>3 DEF Table
  <2>2. \A e \in OrdinaryDests(config) : Settled(e)
    BY <1>1, <1>2, <2>1 DEF IInv, TableInv
  <2>3. \A e \in OrdinaryDests(config') : Settled(e)'
    BY <1>1, <2>2 DEF Settled
  <2> QED
    BY <1>1, <1>2, <1>3, <1>4, <2>1, <2>3 DEF TableInv, Distinct
<1> QED
  BY <1>5, <1>6, <1>7, <1>8, <1>9 DEF IInv

\* The facility is started.
LEMMA EndOfStatisticsIInv == ASSUME IInv, EndOfStatistics PROVE IInv'
<1>1. /\ call.phase = "statistics" /\ call.todo = {} /\ call.errors = {}
      /\ isStarted' = TRUE /\ call' = Idle
      /\ destinations' = destinations /\ cleanSlate' = cleanSlate
      /\ config' = config /\ made' = made /\ reported' = reported
  BY DEF EndOfStatistics
<1>2. config \in Configurations /\ InTable
  BY <1>1 DEF IInv, TableInv, InTable
<1>3. call' \in CallType /\ call'.phase = "none" /\ ~InTable'
  BY <1>1, IdleType DEF InTable
<1>4. StateType'
  BY <1>1, <1>3 DEF IInv, StateType
<1>5. StoredInv'
  BY <1>1 DEF IInv, StoredInv, Makeable
<1>6. EarlyInv'
  BY <1>1, <1>2, <1>3 DEF IInv, EarlyInv, EarlySilent
<1>7. SlateInv'
  BY <1>1, <1>3 DEF IInv, SlateInv, CleanSlate
<1>8. TableInv'
  <2>1. Table = StatDests(config)
    BY <1>1 DEF Table
  <2>2. /\ \A e \in OrdinaryDests(config) \cup StatDests(config) : Settled(e)
        /\ Distinct(StatDests(config))
    <3>1. Table \ call.todo = StatDests(config)
      BY <1>1, <2>1
    <3> QED
      BY <1>1, <1>2, <3>1 DEF IInv, TableInv
  <2>3. \A e \in OrdinaryDests(config') \cup StatDests(config') : Settled(e)'
    BY <1>1, <2>2 DEF Settled
  <2> QED
    BY <1>1, <1>2, <1>3, <2>2, <2>3 DEF TableInv, Distinct
<1> QED
  BY <1>4, <1>5, <1>6, <1>7, <1>8 DEF IInv

\* The end of the facility leaves the destinations.
LEMMA EndIInv == ASSUME IInv, EndMessageFacility PROVE IInv'
<1>1. /\ call = Idle /\ isStarted' = FALSE
      /\ destinations' = destinations /\ cleanSlate' = cleanSlate
      /\ call' = call /\ config' = config /\ made' = made /\ reported' = reported
  BY DEF EndMessageFacility
<1>2. call.phase = "none" /\ ~InTable
  BY <1>1, IdleType DEF InTable
<1>3. StateType'
  BY <1>1 DEF IInv, StateType
<1>4. StoredInv'
  BY <1>1 DEF IInv, StoredInv, Makeable
<1>5. EarlyInv'
  <2>1. EarlySilent'
    BY <1>1 DEF IInv, EarlyInv, EarlySilent
  <2> QED
    BY <1>1, <1>2, <2>1 DEF IInv, EarlyInv, InTable
<1>6. SlateInv'
  BY <1>1, <1>2 DEF IInv, SlateInv, CleanSlate, InTable
<1>7. TableInv'
  BY <1>1, <1>2 DEF TableInv, InTable
<1> QED
  BY <1>3, <1>4, <1>5, <1>6, <1>7 DEF IInv

LEMMA NextIInv == ASSUME IInv, [Next]_vars PROVE IInv'
<1>1. CASE UNCHANGED vars
  <2>1. /\ isStarted' = isStarted /\ destinations' = destinations /\ cleanSlate' = cleanSlate
        /\ call' = call /\ config' = config /\ made' = made /\ reported' = reported
    BY <1>1 DEF vars
  <2> QED
    BY <2>1 DEF IInv, StateType, StoredInv, Makeable, EarlyInv, EarlySilent, SlateInv, CleanSlate,
                TableInv, Table, Settled, InTable, Distinct
<1>2. CASE \E c \in Configurations : Start(c)
  BY <1>2, StartIInv
<1>3. CASE MakeEarly
  BY <1>3, MakeEarlyIInv
<1>4. CASE EarlyThrows \/ MakeThrows \/ TableThrows
  BY <1>4, Throws, ThrowIInv
<1>5. CASE Configure
  BY <1>5, ConfigureIInv
<1>6. CASE InTable /\ \E e \in call.todo : Make(e)
  BY <1>6, MakeIInv
<1>7. CASE EndOfOrdinary
  BY <1>7, EndOfOrdinaryIInv
<1>8. CASE EndOfStatistics
  BY <1>8, EndOfStatisticsIInv
<1>9. CASE EndMessageFacility
  BY <1>9, EndIInv
<1> QED
  BY <1>1, <1>2, <1>3, <1>4, <1>5, <1>6, <1>7, <1>8, <1>9, Zenon DEF Next

LEMMA Inductive == Spec => []IInv
BY InitIInv, NextIInv, PTL DEF Spec

--------------------------------------------------------------------------------
(***************************************************************************)
(* What follows for every behaviour.                                       *)
(***************************************************************************)
\* Whatever Starts failed, the map of destinations_ has only destinations
\* that could be made: valid ones of a known plugin, statistics of a type
\* that supports them; and no Start is under way in a started facility.
THEOREM TypeCorrect == Spec => []TypeOK
<1>1. IInv => TypeOK
  BY DEF IInv, StateType, CallType, StoredInv, Makeable, EarlyInv, TypeOK
<1> QED
  BY <1>1, Inductive, PTL

\* From the first destination that a Start makes beside cerr_early, and as
\* long as the facility is started, cerr_early is quiet: configure() dials it
\* down before makeDestinations runs.
THEOREM EarlyIsSilent == Spec => []EarlySilent
<1>1. IInv => EarlySilent
  BY DEF IInv, EarlyInv
<1> QED
  BY <1>1, Inductive, PTL

\* makeDestinations finds the slate clean exactly when no earlier Start made
\* a destination, a failed one included: that decides if a duplicate is an
\* error or a warning.
THEOREM SlateIsTrue == Spec => []CleanSlate
<1>1. IInv => CleanSlate
  BY DEF IInv, SlateInv
<1> QED
  BY <1>1, Inductive, PTL

\* Of an instruction of a started facility's configuration one can tell what
\* became of it: it is in effect, or it was reported as a duplicate.
THEOREM NoneIgnoredSilently == Spec => []NothingIgnoredSilently
<1>1. IInv => NothingIgnoredSilently
  BY DEF IInv, TableInv, Settled, NothingIgnoredSilently
<1> QED
  BY <1>1, Inductive, PTL

\* No two statistics destinations of a started facility write to one output.
THEOREM StatisticsAreDistinct == Spec => []StatisticsDistinct
<1>1. IInv => StatisticsDistinct
  BY DEF IInv, TableInv, Distinct, StatisticsDistinct
<1> QED
  BY <1>1, Inductive, PTL

\* What a step does to the map: it adds at most one destination, and touches
\* no other than cerr_early.
LEMMA StepKeeps ==
    ASSUME IInv, Next
    PROVE  /\ \A id \in DOMAIN destinations \ {Early} :
                 id \in DOMAIN destinations' /\ destinations'[id] = destinations[id]
           /\ \/ DOMAIN destinations' = DOMAIN destinations /\ isStarted' = isStarted
              \/ /\ ~isStarted /\ isStarted' = FALSE
                 /\ \E id \in Outputs : DOMAIN destinations' = DOMAIN destinations \cup {Early, id}
              \/ /\ ~isStarted /\ isStarted' = TRUE
                 /\ DOMAIN destinations' = DOMAIN destinations \cup {Early}
              \/ isStarted' = FALSE /\ DOMAIN destinations' = DOMAIN destinations /\ EndMessageFacility
<1>1. CASE \/ \E c \in Configurations : Start(c)
           \/ EarlyThrows \/ MakeThrows \/ TableThrows
           \/ EndOfOrdinary
  <2>1. destinations' = destinations /\ isStarted' = isStarted
    BY <1>1 DEF Start, EarlyThrows, MakeThrows, TableThrows, EndOfOrdinary, Throw
  <2> QED
    BY <2>1
<1>2. CASE MakeEarly
  <2>1. /\ call.phase = "early" /\ isStarted' = isStarted
        /\ Store(Early, "ordinary", DefaultDestination("cerr_early"))
    BY <1>2 DEF MakeEarly
  <2>2. /\ DOMAIN destinations' = DOMAIN destinations \cup {Early}
        /\ \A x \in DOMAIN destinations : x # Early => destinations'[x] = destinations[x]
    BY <2>1, EarlyEntry, StoreKeeps DEF IInv
  <2>3. isStarted = FALSE /\ Early \in Outputs
    BY <2>1, IdleType, EarlyEntry DEF IInv, EarlyInv, StateType
  <2>4. DOMAIN destinations' = DOMAIN destinations \cup {Early, Early}
    BY <2>2
  <2> QED
    BY <2>1, <2>2, <2>3, <2>4
<1>3. CASE Configure
  <2>1. /\ destinations' = [destinations EXCEPT ![Early].loud = FALSE]
        /\ isStarted' = isStarted
    BY <1>3 DEF Configure
  <2> QED
    BY <2>1 DEF IInv, StateType
<1>4. CASE InTable /\ \E e \in call.todo : Make(e)
  <2> PICK o \in call.todo : Make(o)
    BY <1>4
  <2> PICK e : e = Completed(o)
    OBVIOUS
  <2> PICK out : out = OutputId(e)
    OBVIOUS
  <2>1. /\ e \in Specs /\ out \in Outputs /\ isStarted' = isStarted
        /\ \/ destinations' = destinations
           \/ out \notin DOMAIN destinations /\ Store(out, call.phase, e)
    BY <1>4, MakeStep
  <2>2. isStarted = FALSE /\ Early \in DOMAIN destinations /\ call.phase \in {"ordinary", "statistics"}
    BY <1>4, IdleType DEF IInv, EarlyInv, StateType, InTable
  <2>3. CASE destinations' = destinations
    BY <2>1, <2>3
  <2>4. CASE out \notin DOMAIN destinations /\ Store(out, call.phase, e)
    <3>1. /\ DOMAIN destinations' = DOMAIN destinations \cup {out}
          /\ \A x \in DOMAIN destinations : x # out => destinations'[x] = destinations[x]
      BY <2>1, <2>2, <2>4, StoreKeeps DEF IInv
    <3>2. DOMAIN destinations' = DOMAIN destinations \cup {Early, out}
      BY <2>2, <3>1
    <3>3. \A x \in DOMAIN destinations : x \in DOMAIN destinations' /\ destinations'[x] = destinations[x]
      BY <2>4, <3>1
    <3> QED
      BY <2>1, <2>2, <3>2, <3>3
  <2> QED
    BY <2>1, <2>3, <2>4
<1>5. CASE EndOfStatistics
  <2>1. call.phase = "statistics" /\ isStarted' = TRUE /\ destinations' = destinations
    BY <1>5 DEF EndOfStatistics
  <2>2. Early \in DOMAIN destinations /\ ~isStarted
    BY <2>1, IdleType DEF IInv, EarlyInv, InTable
  <2>3. DOMAIN destinations' = DOMAIN destinations \cup {Early}
    BY <2>1, <2>2
  <2> QED
    BY <2>1, <2>2, <2>3
<1>6. CASE EndMessageFacility
  BY <1>6 DEF EndMessageFacility
<1> QED
  BY <1>1, <1>2, <1>3, <1>4, <1>5, <1>6, Zenon DEF Next

\* A destination is made once: no later instruction, no failed Start and no
\* End changes or removes it.
THEOREM OriginalsStay == Spec => OriginalInstructions
<1>1. IInv /\ [Next]_vars =>
        [\A id \in DOMAIN destinations \ {Early} :
            id \in DOMAIN destinations' /\ destinations'[id] = destinations[id]]_vars
  BY StepKeeps
<1> QED
  BY <1>1, Inductive, PTL DEF Spec, OriginalInstructions

(***************************************************************************)
(* The refinement: MessageLogger sees the domain of the map, by number.    *)
(***************************************************************************)
Numbers == {Number(id) : id \in Outputs}
Attached == {Number(id) : id \in DOMAIN destinations}

\* A step of MessageLogger's Start.
LEMMA RefinesStart ==
    ASSUME NEW new \in SUBSET Numbers, ~isStarted, Attached' = Attached \cup new,
           \/ new = {} /\ isStarted' = isStarted
           \/ Number(Early) \in new /\ isStarted' \in BOOLEAN
    PROVE  Dispatcher!Next
<1>1. Dispatcher!SingleThreaded
  BY DEF Dispatcher!SingleThreaded, Dispatcher!Busy
<1>2. Dispatcher!StartMessageFacility(new)
  BY <1>1 DEF Dispatcher!StartMessageFacility, Attached
<1> QED
  BY <1>2 DEF Dispatcher!Next, Numbers

\* A step of MessageLogger's End.
LEMMA RefinesEnd ==
    ASSUME isStarted' = FALSE, Attached' = Attached
    PROVE  Dispatcher!Next
<1>1. Dispatcher!SingleThreaded
  BY DEF Dispatcher!SingleThreaded, Dispatcher!Busy
<1>2. Dispatcher!EndMessageFacility
  BY <1>1 DEF Dispatcher!EndMessageFacility, Attached
<1> QED
  BY <1>2 DEF Dispatcher!Next

\* Nothing that MessageLogger looks at.
LEMMA RefinesStutter ==
    ASSUME isStarted' = isStarted, Attached' = Attached
    PROVE  UNCHANGED Dispatcher!vars
BY DEF Dispatcher!vars, Dispatcher!globals, Dispatcher!history, Attached

\* Starts and Ends, in all their steps and failures, are those of the
\* dispatcher's model: a Start that has not ended adds destinations,
\* cerr_early among them, and only its last step starts the facility.
THEOREM StartImplementsDispatcher == Spec => ImplementsDispatcher
<1>1. Init => Dispatcher!Init
  BY DEF Init, Dispatcher!Init, Dispatcher!Msgs, Dispatcher!NoFrame
<1>2. ASSUME IInv, [Next]_vars PROVE [Dispatcher!Next]_(Dispatcher!vars)
  <2>1. CASE UNCHANGED vars
    <3>1. isStarted' = isStarted /\ Attached' = Attached
      BY <2>1 DEF vars, Attached
    <3> QED
      BY <3>1, RefinesStutter
  <2>2. CASE Next
    <3>1. CASE DOMAIN destinations' = DOMAIN destinations /\ isStarted' = isStarted
      <4>1. Attached' = Attached
        BY <3>1 DEF Attached
      <4> QED
        BY <3>1, <4>1, RefinesStutter
    <3>2. CASE /\ ~isStarted /\ isStarted' = FALSE
               /\ \E id \in Outputs : DOMAIN destinations' = DOMAIN destinations \cup {Early, id}
      <4> PICK id \in Outputs : DOMAIN destinations' = DOMAIN destinations \cup {Early, id}
        BY <3>2
      <4>1. Attached' = Attached \cup {Number(Early), Number(id)}
        BY DEF Attached
      <4>2. {Number(Early), Number(id)} \in SUBSET Numbers
        BY EarlyEntry DEF Numbers
      <4> QED
        BY <3>2, <4>1, <4>2, RefinesStart
    <3>3. CASE /\ ~isStarted /\ isStarted' = TRUE
               /\ DOMAIN destinations' = DOMAIN destinations \cup {Early}
      <4>1. Attached' = Attached \cup {Number(Early)}
        BY <3>3 DEF Attached
      <4>2. {Number(Early)} \in SUBSET Numbers
        BY EarlyEntry DEF Numbers
      <4> QED
        BY <3>3, <4>1, <4>2, RefinesStart
    <3>4. CASE isStarted' = FALSE /\ DOMAIN destinations' = DOMAIN destinations /\ EndMessageFacility
      <4>1. Attached' = Attached
        BY <3>4 DEF Attached
      <4> QED
        BY <3>4, <4>1, RefinesEnd
    <3> QED
      BY <1>2, <2>2, <3>1, <3>2, <3>3, <3>4, StepKeeps
  <2> QED
    BY <1>2, <2>1, <2>2
<1> QED
  BY <1>1, <1>2, Inductive, PTL DEF Spec, ImplementsDispatcher, Dispatcher!Spec
===============================================================================
