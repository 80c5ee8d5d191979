--------------------------- MODULE PrekeysProofs ---------------------------
(***************************************************************************)
(* The proof that Prekeys implements KeyLife, for every number of pools     *)
(* and every value of the intervals, caps and bounds.                      *)
(*                                                                         *)
(* What makes it true is kept by no single step: every id ever offered is   *)
(* below the high-water mark of the stored state, a state of the old        *)
(* format owns exactly the keys made at enrollment, a plan names keys the   *)
(* stored state owns, and no first message is opened while there is one.    *)
(***************************************************************************)
EXTENDS Prekeys, TLAPS, FiniteSetTheorems, WellFoundedInduction

KeySets == [Kinds -> SUBSET Nat]

Batch == [rotation : BOOLEAN, keys : KeySets]

DeviceState ==
    [format : {1, 2}, bundle : Nat, spk : Nat, created : Nat,
     retired : SUBSET [id : Nat, retain : Nat], next : [Kinds -> Nat],
     otpk : KeySets, pending : Batch \cup {None}]

Plans == [stage : {"prepared", "accepted", "logPrepared"}, state : DeviceState,
          upload : Batch, seq : Nat]

Messages == [spk : Nat, keys : KeySets,
             at : {"wire", "held", "opened", "rejected", "expired"}, hold : Nat,
             kept : BOOLEAN, until : Int, marker : BOOLEAN, opened : Nat]

LocalPCs == {"read", "pruned", "reread"}
PlanPCs == {"prepared", "uploaded", "accepted", "logPrepared", "append", "recheck", "commit"}

\* The run holds the server's counts, and then the day and the state it read,
\* up to its plan; after that it holds nothing but its place.
Runs ==
    /\ run.pc \in {"idle", "counted"} \cup LocalPCs \cup PlanPCs
    /\ run.pc \in {"idle"} \cup PlanPCs => run \in [pc : {"idle"} \cup PlanPCs]
    /\ run.pc = "counted" => run \in [pc : {"counted"}, counts : [Kinds -> Nat]]
    /\ run.pc \in LocalPCs =>
          run \in [pc : LocalPCs, counts : [Kinds -> Nat], day : Nat, held : SUBSET Nat,
                   base : DeviceState]

Types ==
    /\ device \in DeviceState
    /\ row \in [bundle : Nat, rotated : Nat]
    /\ plan = None \/ plan \in Plans
    /\ server \in [stored : KeySets, spk : Nat, bundle : Nat]
    /\ \A k \in Kinds : IsFiniteSet(server.stored[k])
    /\ log \in Seq([seq : Nat, bundle : Nat])
    /\ claims \in Seq(Messages)
    /\ day \in Nat
    /\ offered \in KeySets

\* A plan exists exactly while the run is past it or rests; the state it was
\* stored with owns its keys, and is of the new format.  No batch is pending
\* without a plan.
PlanIsOwned ==
    /\ run.pc \in {"counted"} \cup LocalPCs => plan = None
    /\ run.pc \in PlanPCs => plan # None
    /\ run.pc \in {"pruned", "reread"} => device.format = 2
    /\ plan = None => device.pending = None
    /\ plan # None =>
          /\ device.format = 2
          /\ \A k \in Kinds : /\ plan.upload.keys[k] \subseteq device.otpk[k]
                              /\ IsFiniteSet(plan.upload.keys[k])
                              /\ \A id \in plan.upload.keys[k] : id < device.next[k]

\* Whatever was offered is below the mark; an old state is as it was enrolled.
OfferedIsBelow ==
    /\ device.format = 2 => \A k \in Kinds : \A id \in offered[k] : id < device.next[k]
    /\ device.format = 1 => device.otpk = AtEnrollment /\ offered = AtEnrollment

\* What peers hold was offered, and what they used up is gone.
ClaimedIsOffered ==
    \A k \in Kinds :
        /\ server.stored[k] \subseteq offered[k]
        /\ \A i \in DOMAIN claims : claims[i].keys[k] \subseteq offered[k]
        /\ \A i \in Spent : claims[i].keys[k] \cap device.otpk[k] = {}

KeyInv == Types /\ Runs /\ PlanIsOwned /\ OfferedIsBelow /\ ClaimedIsOffered

-----------------------------------------------------------------------------
(* Numbers. *)

\* The constants are natural numbers.
LEMMA ConstantsAreNat ==
    /\ RotationDays \in Nat /\ RetentionDays \in Nat /\ KEY_ID_MAX \in Nat
    /\ LowWatermark \in Nat /\ Target \in Nat /\ Enrolled \in Nat
    /\ LowWatermark <= Target /\ Enrolled <= KEY_ID_MAX /\ Exhausted = KEY_ID_MAX + 1
BY PrekeyAssumption DEF Exhausted

\* A non-empty set of days has an earliest one (the hold day a run starts from).
LEMMA MinIsLeast ==
    ASSUME NEW S \in SUBSET Nat, S # {}
    PROVE  Min(S) \in S /\ \A y \in S : Min(S) <= y
<1>1. PICK m \in S : \A y \in S : ~ (<<y, m>> \in OpToRel(<, Nat))
    BY WFMin, NatLessThanWellFounded, Zenon
<1>2. \A y \in S : ~ (y < m)
    BY <1>1 DEF OpToRel
<1>3. \E x \in S : \A y \in S : x =< y
    BY <1>2
<1> QED
    BY <1>3 DEF Min

\* Appending keeps the type of a sequence.
LEMMA AppendIsSeq ==
    ASSUME NEW S, NEW q \in Seq(S), NEW e \in S
    PROVE  /\ Append(q, e) \in Seq(S)
           /\ DOMAIN Append(q, e) = DOMAIN q \cup {Len(q) + 1}
           /\ Len(q) + 1 \notin DOMAIN q
           /\ \A i \in DOMAIN q : Append(q, e)[i] = q[i]
           /\ Append(q, e)[Len(q) + 1] = e
OBVIOUS

\* Decoding a state of the old format starts the mark above every enrolled key.
LEMMA EnrolledMark ==
    /\ initial_next_id(1 .. Enrolled) \in Nat
    /\ \A id \in 1 .. Enrolled : id < initial_next_id(1 .. Enrolled)
<1> DEFINE S == (1 .. Enrolled) \cup {0}
<1>1. Enrolled \in S /\ \A y \in S : Enrolled >= y
    BY ConstantsAreNat
<1>2. Max(S) \in S /\ \A y \in S : Max(S) >= y
    BY <1>1 DEF Max
<1>3. Max(S) = Enrolled
    <2>1. Max(S) \in Nat /\ Max(S) >= Enrolled /\ Enrolled >= Max(S)
        BY <1>1, <1>2, ConstantsAreNat
    <2> QED
        BY <2>1, ConstantsAreNat
<1> QED
    BY <1>3, ConstantsAreNat DEF initial_next_id

\* What decode_device_state leaves as it was, and the marks it supplies.
LEMMA DecodedState ==
    ASSUME KeyInv, NEW t \in Nat, NEW d, d = decode_device_state(device, t)
    PROVE  /\ d \in DeviceState
           /\ d.otpk = device.otpk /\ d.pending = device.pending
           /\ \A k \in Kinds : \A id \in offered[k] : id < d.next[k]
<1> USE DEF KeyInv
<1>1. CASE device.format = 1
    <2>1. d = decode_v1(device, t)
        BY <1>1 DEF decode_device_state
    <2>2. saturating_sub(t, RotationDays) \in Nat
        BY ConstantsAreNat DEF saturating_sub
    <2>3. \A k \in Kinds : device.otpk[k] = 1 .. Enrolled /\ offered[k] = 1 .. Enrolled
        BY <1>1 DEF OfferedIsBelow, AtEnrollment
    <2> DEFINE marks == [k \in Kinds |-> initial_next_id(device.otpk[k])]
    <2>4. marks \in [Kinds -> Nat] /\ \A k \in Kinds : \A id \in offered[k] : id < marks[k]
        BY <2>3, EnrolledMark
    <2>5. d = [device EXCEPT !.created = saturating_sub(t, RotationDays), !.next = marks]
        BY <2>1 DEF decode_v1
    <2> HIDE DEF marks
    <2> QED
        BY <2>2, <2>4, <2>5 DEF Types, DeviceState
<1>2. CASE device.format # 1
    BY <1>2 DEF decode_device_state, Types, DeviceState, OfferedIsBelow
<1> QED
    BY <1>1, <1>2

-----------------------------------------------------------------------------
(* The inductive invariant. *)

\* Enrollment establishes it: the server stores what the device made.
LEMMA InitKeyInv == PrekeyInit => KeyInv
<1> SUFFICES ASSUME PrekeyInit PROVE KeyInv
    OBVIOUS
<1>1. AtEnrollment \in KeySets /\ \A k \in Kinds : IsFiniteSet(AtEnrollment[k])
    BY ConstantsAreNat, FS_Interval DEF AtEnrollment, KeySets
<1>2. Types
    BY <1>1, ConstantsAreNat DEF PrekeyInit, Types, DeviceState, None
<1>3. Runs /\ PlanIsOwned
    BY DEF PrekeyInit, Runs, PlanIsOwned, Resting, LocalPCs, PlanPCs
<1>4. OfferedIsBelow
    BY DEF PrekeyInit, OfferedIsBelow
<1>5. ClaimedIsOffered
    BY DEF PrekeyInit, ClaimedIsOffered, Spent
<1> QED
    BY <1>2, <1>3, <1>4, <1>5 DEF KeyInv

\* A step that moves the run on, the plan and the device staying as they are.
LEMMA RunKeyInv ==
    ASSUME KeyInv, Runs',
           run'.pc \in {"counted"} \cup LocalPCs => plan = None,
           run'.pc \in PlanPCs => plan # None,
           run'.pc \in {"pruned", "reread"} => device.format = 2,
           log' \in Seq([seq : Nat, bundle : Nat]), day' \in Nat,
           UNCHANGED <<device, row, plan, server, claims, offered>>
    PROVE  KeyInv'
<1> USE DEF KeyInv
<1>1. Types'
    BY DEF Types
<1>2. PlanIsOwned'
    BY DEF PlanIsOwned
<1>3. OfferedIsBelow'
    BY DEF OfferedIsBelow
<1>4. ClaimedIsOffered'
    BY DEF ClaimedIsOffered, Spent, At
<1> QED
    BY <1>1, <1>2, <1>3, <1>4

\* Ending a run, by failing, by a crash or by an answer that does not come.
LEMMA RestRuns == ASSUME Fail PROVE Runs' /\ run'.pc = "idle"
BY DEF Fail, Resting, Runs, LocalPCs, PlanPCs

\* Moving within the steps after the plan.
LEMMA GotoRuns ==
    ASSUME KeyInv, NEW pc \in PlanPCs, run.pc \in PlanPCs, Goto(pc)
    PROVE  Runs' /\ run'.pc = pc
BY DEF KeyInv, Goto, Runs, LocalPCs, PlanPCs

\* maintain starts a run: it resumes the plan, or reads the server's counts.
LEMMA MaintainKeyInv == ASSUME KeyInv, Maintain PROVE KeyInv'
<1> USE DEF KeyInv
<1>1. UNCHANGED <<device, row, plan, server, log, claims, day, offered>>
    BY DEF Maintain
<1>2. CASE plan # None
    <2>1. run' = [pc |-> plan.stage] /\ plan.stage \in {"prepared", "accepted", "logPrepared"}
        BY <1>2 DEF Maintain, Types, Plans
    <2>2. Runs' /\ run'.pc \in PlanPCs
        BY <2>1 DEF Runs, LocalPCs, PlanPCs
    <2> QED
        BY <1>1, <1>2, <2>2, RunKeyInv DEF Types, LocalPCs, PlanPCs
<1>3. CASE plan = None
    <2> DEFINE counts == [k \in Kinds |-> Cardinality(server.stored[k])]
    <2>1. counts \in [Kinds -> Nat]
        BY FS_CardinalityType DEF Types
    <2>2. run' = [pc |-> "counted", counts |-> counts]
        BY <1>3 DEF Maintain
    <2> HIDE DEF counts
    <2>3. Runs' /\ run'.pc = "counted"
        BY <2>1, <2>2 DEF Runs, LocalPCs, PlanPCs
    <2> QED
        BY <1>1, <1>3, <2>3, RunKeyInv DEF Types, LocalPCs, PlanPCs
<1> QED
    BY <1>2, <1>3

\* The hold days of the messages held.
LEMMA HoldDaysAreDays == ASSUME KeyInv PROVE HoldDays \subseteq Nat
<1>1. \A i \in DOMAIN claims : claims[i] \in Messages
    BY DEF KeyInv, Types
<1>2. \A i \in DOMAIN claims : claims[i].hold \in Nat
    BY <1>1 DEF Messages
<1> QED
    BY <1>2 DEF HoldDays

LEMMA ReadContextKeyInv == ASSUME KeyInv, ReadContext PROVE KeyInv'
<1> USE DEF KeyInv
<1>1. UNCHANGED <<device, row, plan, server, log, claims, day, offered>> /\ run.pc = "counted"
    BY DEF ReadContext
<1> DEFINE held == IF HoldDays = {} THEN {} ELSE {Min(HoldDays)}
<1>2. held \in SUBSET Nat
    BY HoldDaysAreDays, MinIsLeast
<1>3. run' = [pc |-> "read", counts |-> run.counts, day |-> day, held |-> held, base |-> device]
    BY DEF ReadContext
<1> HIDE DEF held
<1>4. run.counts \in [Kinds -> Nat] /\ day \in Nat /\ device \in DeviceState
    BY <1>1 DEF Runs, Types
<1>5. Runs' /\ run'.pc = "read"
    BY <1>2, <1>3, <1>4 DEF Runs, LocalPCs, PlanPCs
<1>6. plan = None
    BY <1>1 DEF PlanIsOwned
<1> QED
    BY <1>1, <1>5, <1>6, RunKeyInv DEF Types, PlanPCs

LEMMA RereadKeyInv == ASSUME KeyInv, Reread PROVE KeyInv'
<1> USE DEF KeyInv
<1>1. UNCHANGED <<device, row, plan, server, log, claims, day, offered>> /\ run.pc = "pruned"
    BY DEF Reread
<1>2. run \in [pc : LocalPCs, counts : [Kinds -> Nat], day : Nat, held : SUBSET Nat,
               base : DeviceState]
    BY <1>1 DEF Runs, LocalPCs
<1>3. run' \in [pc : LocalPCs, counts : [Kinds -> Nat], day : Nat, held : SUBSET Nat,
                base : DeviceState] /\ run'.pc = "reread"
    BY <1>2 DEF Reread, Types, LocalPCs
<1>4. Runs'
    BY <1>3 DEF Runs, LocalPCs, PlanPCs
<1>5. plan = None /\ device.format = 2
    BY <1>1 DEF PlanIsOwned, LocalPCs
<1> QED
    BY <1>1, <1>3, <1>4, <1>5, RunKeyInv DEF Types, PlanPCs

\* The steps that look at the log or append to it.
LEMMA LogKeyInv ==
    ASSUME KeyInv, Reconcile \/ AppendRecord \/ Recheck
    PROVE  KeyInv'
<1> USE DEF KeyInv
<1>1. run.pc \in PlanPCs /\ UNCHANGED <<device, row, plan, server, claims, day, offered>>
    BY DEF Reconcile, AppendRecord, Recheck, PlanPCs
<1>2. plan # None
    BY <1>1 DEF PlanIsOwned
<1>3. Fail \/ \E pc \in PlanPCs : Goto(pc)
    BY DEF Reconcile, AppendRecord, Recheck, PlanPCs
<1>4. Runs' /\ run'.pc \in {"idle"} \cup PlanPCs
    BY <1>1, <1>3, RestRuns, GotoRuns
<1>5. log' \in Seq([seq : Nat, bundle : Nat])
    <2>1. Record \in [seq : Nat, bundle : Nat]
        BY <1>2 DEF Record, Types, Plans, DeviceState
    <2>2. log' = log \/ log' = Append(log, Record)
        BY DEF Reconcile, AppendRecord, Recheck
    <2>3. log \in Seq([seq : Nat, bundle : Nat])
        BY DEF Types
    <2> QED
        <3>1. Append(log, Record) \in Seq([seq : Nat, bundle : Nat])
            BY <2>1, <2>3, AppendIsSeq, Zenon
        <3> QED
            BY <2>2, <2>3, <3>1, Zenon
<1> QED
    BY <1>1, <1>2, <1>4, <1>5, RunKeyInv DEF Types, LocalPCs, PlanPCs

\* A day passes, another device appends a record, or the process dies.
LEMMA OutsideKeyInv ==
    ASSUME KeyInv, OtherAppend \/ Crash \/ Tick
    PROVE  KeyInv'
<1> USE DEF KeyInv
<1>1. UNCHANGED <<device, row, plan, server, claims, offered>>
    BY DEF OtherAppend, Crash, Tick, maintenanceVars
<1>2. /\ Runs'
      /\ run' = run \/ run'.pc = "idle"
    <2>1. CASE Crash
        BY <2>1, RestRuns DEF Crash
    <2>2. CASE OtherAppend \/ Tick
        BY <2>2 DEF OtherAppend, Tick, maintenanceVars, Runs
    <2> QED
        BY <2>1, <2>2
<1>3. day' \in Nat
    BY DEF OtherAppend, Crash, Tick, Types
<1>4. log' \in Seq([seq : Nat, bundle : Nat])
    <2>1. CASE OtherAppend
        <3>1. log \in Seq([seq : Nat, bundle : Nat]) /\ Len(log) \in Nat
            BY DEF Types
        <3>2. [seq |-> Len(log), bundle |-> 0] \in [seq : Nat, bundle : Nat]
            BY <3>1
        <3> QED
            BY <2>1, <3>1, <3>2, AppendIsSeq, Zenon DEF OtherAppend
    <2>2. CASE Crash \/ Tick
        BY <2>2 DEF Crash, Tick, Types
    <2> QED
        BY <2>1, <2>2
<1>5. /\ run'.pc \in {"counted"} \cup LocalPCs => plan = None
      /\ run'.pc \in PlanPCs => plan # None
      /\ run'.pc \in {"pruned", "reread"} => device.format = 2
    BY <1>2 DEF PlanIsOwned, LocalPCs, PlanPCs
<1> QED
    BY <1>1, <1>2, <1>3, <1>4, <1>5, RunKeyInv

\* The plan moves to its next stage and keeps its batch.
LEMMA StageKeyInv ==
    ASSUME KeyInv, MarkUploadAccepted \/ PrepareOwnRotation
    PROVE  KeyInv'
<1> USE DEF KeyInv
<1>1. run.pc \in PlanPCs /\ UNCHANGED <<device, row, server, log, claims, day, offered>>
    BY DEF MarkUploadAccepted, PrepareOwnRotation, PlanPCs
<1>2. plan # None /\ plan \in Plans
    BY <1>1 DEF PlanIsOwned, Types
<1>3. Fail \/ \E pc \in PlanPCs : Goto(pc)
    BY DEF MarkUploadAccepted, PrepareOwnRotation, PlanPCs
<1>4. Runs' /\ run'.pc \in {"idle"} \cup PlanPCs
    BY <1>1, <1>3, RestRuns, GotoRuns
<1>5. plan' \in Plans /\ plan'.upload = plan.upload
    <2>1. Len(log) \in Nat
        BY DEF Types
    <2> QED
        BY <1>2, <2>1 DEF MarkUploadAccepted, PrepareOwnRotation, Plans
<1>6. plan' # None
    BY <1>5 DEF Plans, None
<1>7. Types'
    BY <1>1, <1>5 DEF Types
<1>8. PlanIsOwned'
    BY <1>1, <1>2, <1>4, <1>5, <1>6 DEF PlanIsOwned, LocalPCs, PlanPCs
<1>9. OfferedIsBelow'
    BY <1>1 DEF OfferedIsBelow
<1>10. ClaimedIsOffered'
    BY <1>1 DEF ClaimedIsOffered, Spent, At
<1> QED
    BY <1>4, <1>7, <1>8, <1>9, <1>10

\* What becomes of a first message that is not opened changes no key.
LEMMA MessageKeyInv ==
    ASSUME KeyInv, NEW i \in DOMAIN claims, Reject(i) \/ Hold(i) \/ Expire(i)
    PROVE  /\ KeyInv'
           /\ device' = device /\ offered' = offered
           /\ DOMAIN claims' = DOMAIN claims
           /\ \A j \in DOMAIN claims : /\ claims'[j].keys = claims[j].keys
                                       /\ At(j, "opened")' <=> At(j, "opened")
<1> USE DEF KeyInv
<1>1. UNCHANGED <<device, row, plan, run, server, log, day, offered>>
    BY DEF Reject, Hold, Expire, maintenanceVars
<1>2. claims \in Seq(Messages) /\ claims[i] \in Messages /\ day \in Nat
    BY DEF Types
<1>3. claims[i].at \in {"wire", "held"}
    BY DEF Reject, Hold, Expire, At
<1>4. PICK m \in Messages : /\ claims' = [claims EXCEPT ![i] = m]
                            /\ m.keys = claims[i].keys
                            /\ m.at # "opened"
    <2>1. CASE Reject(i)
        <3> DEFINE m == [claims[i] EXCEPT !.at = "rejected"]
        <3>1. m \in Messages /\ m.keys = claims[i].keys /\ m.at # "opened"
            BY <1>2 DEF Messages
        <3>2. claims' = [claims EXCEPT ![i] = m]
            BY <2>1 DEF Reject
        <3> QED
            BY <3>1, <3>2
    <2>2. CASE Expire(i)
        <3> DEFINE m == [claims[i] EXCEPT !.at = "expired"]
        <3>1. m \in Messages /\ m.keys = claims[i].keys /\ m.at # "opened"
            BY <1>2 DEF Messages
        <3>2. claims' = [claims EXCEPT ![i] = m]
            BY <2>2 DEF Expire
        <3> QED
            BY <3>1, <3>2
    <2>3. CASE Hold(i)
        <3> DEFINE kept == KeptOn(decode_device_state(device, day), claims[i], day)
        <3>1. kept \in BOOLEAN
            BY DEF KeptOn
        <3> DEFINE m == [claims[i] EXCEPT !.at = "held", !.hold = day, !.kept = kept]
        <3>2. claims' = [claims EXCEPT ![i] = m]
            BY <2>3 DEF Hold
        <3> HIDE DEF kept
        <3>3. m \in Messages /\ m.keys = claims[i].keys /\ m.at # "opened"
            BY <1>2, <3>1 DEF Messages
        <3> QED
            BY <3>2, <3>3
    <2> QED
        BY <2>1, <2>2, <2>3
<1>5. /\ claims' \in Seq(Messages) /\ DOMAIN claims' = DOMAIN claims
      /\ \A j \in DOMAIN claims : /\ claims'[j].keys = claims[j].keys
                                  /\ At(j, "opened")' <=> At(j, "opened")
    BY <1>2, <1>3, <1>4 DEF At
<1>6. Types' /\ Runs'
    BY <1>1, <1>5 DEF Types, Runs
<1>7. PlanIsOwned' /\ OfferedIsBelow'
    BY <1>1 DEF PlanIsOwned, OfferedIsBelow
<1>8. ClaimedIsOffered'
    BY <1>1, <1>5 DEF ClaimedIsOffered, Spent
<1> QED
    BY <1>1, <1>5, <1>6, <1>7, <1>8

\* A claim hands out keys that were offered.
LEMMA ClaimKeyInv ==
    ASSUME KeyInv, Claim
    PROVE  /\ KeyInv'
           /\ device' = device /\ offered' = offered
           /\ DOMAIN claims \subseteq DOMAIN claims'
           /\ \A j \in DOMAIN claims : claims'[j] = claims[j]
           /\ \A j \in DOMAIN claims' \ DOMAIN claims : ~At(j, "opened")'
<1> USE DEF KeyInv
<1>1. UNCHANGED <<device, row, plan, run, log, day, offered>>
    BY DEF Claim, maintenanceVars
<1> DEFINE taken == [k \in Kinds |-> Taken(k)]
           left == [k \in Kinds |-> server.stored[k] \ Taken(k)]
           m == [spk |-> server.spk, keys |-> taken, at |-> "wire", hold |-> 0,
                 kept |-> FALSE, until |-> OpenableUntil, marker |-> FALSE, opened |-> 0]
<1>2. server.stored \in KeySets /\ server.spk \in Nat /\ server.bundle \in Nat
    BY DEF Types
<1>3. \A k \in Kinds : Taken(k) \subseteq server.stored[k]
    BY <1>2, MinIsLeast DEF Taken, KeySets
<1>4. /\ taken \in KeySets /\ left \in KeySets
      /\ \A k \in Kinds : /\ taken[k] \subseteq server.stored[k]
                           /\ left[k] \subseteq server.stored[k]
    BY <1>2, <1>3 DEF KeySets
<1>5. server' = [server EXCEPT !.stored = left] /\ claims' = Append(claims, m)
    BY DEF Claim
<1>6. OpenableUntil \in Int
    BY ConstantsAreNat DEF OpenableUntil, Types
<1> HIDE DEF taken, left
<1>7. m \in Messages /\ m.keys = taken /\ m.at # "opened"
    BY <1>2, <1>4, <1>6 DEF Messages
<1> HIDE DEF m
<1>8. /\ claims' \in Seq(Messages)
      /\ DOMAIN claims' = DOMAIN claims \cup {Len(claims) + 1}
      /\ \A j \in DOMAIN claims : claims'[j] = claims[j]
      /\ claims'[Len(claims) + 1] = m
    <2>1. claims \in Seq(Messages) /\ m \in Messages /\ claims' = Append(claims, m)
        BY <1>5, <1>7 DEF Types
    <2> QED
        BY <2>1, AppendIsSeq
<1>9. /\ server' \in [stored : KeySets, spk : Nat, bundle : Nat]
      /\ server'.stored = left
    BY <1>4, <1>5 DEF Types
<1>10. \A k \in Kinds : IsFiniteSet(server'.stored[k])
    BY <1>4, <1>9, FS_Subset DEF Types
<1>11. Types' /\ Runs'
    BY <1>1, <1>8, <1>9, <1>10 DEF Types, Runs
<1>12. PlanIsOwned' /\ OfferedIsBelow'
    BY <1>1 DEF PlanIsOwned, OfferedIsBelow
<1>13. \A j \in DOMAIN claims' \ DOMAIN claims : claims'[j] = m /\ ~At(j, "opened")'
    BY <1>7, <1>8 DEF At
<1>14. ClaimedIsOffered'
    <2> SUFFICES ASSUME NEW k \in Kinds
                 PROVE  /\ server'.stored[k] \subseteq offered'[k]
                        /\ \A i \in DOMAIN claims' : claims'[i].keys[k] \subseteq offered'[k]
                        /\ \A i \in Spent' : claims'[i].keys[k] \cap device'.otpk[k] = {}
        BY DEF ClaimedIsOffered
    <2>1. /\ server.stored[k] \subseteq offered[k]
          /\ \A i \in DOMAIN claims : claims[i].keys[k] \subseteq offered[k]
          /\ \A i \in Spent : claims[i].keys[k] \cap device.otpk[k] = {}
        BY DEF ClaimedIsOffered
    <2>2. Spent' = Spent
        BY <1>8, <1>13 DEF Spent, At
    <2>3. \A i \in DOMAIN claims' : claims'[i].keys[k] \subseteq offered'[k]
        BY <1>1, <1>4, <1>7, <1>8, <1>13, <2>1
    <2>4. \A i \in Spent : i \in DOMAIN claims
        BY DEF Spent
    <2> QED
        BY <1>1, <1>4, <1>8, <1>9, <2>1, <2>2, <2>3, <2>4
<1> QED
    BY <1>1, <1>8, <1>11, <1>12, <1>13, <1>14

\* A step that rewrites the stored state and keeps its keys and marks.
LEMMA RewriteKeyInv ==
    ASSUME KeyInv, Types', Runs',
           device'.otpk = device.otpk, device'.pending = None,
           device'.format = 2,
           \A k \in Kinds : \A id \in offered[k] : id < device'.next[k],
           plan' = None, run'.pc \in {"idle", "pruned"},
           DOMAIN claims' = DOMAIN claims,
           \A i \in DOMAIN claims : /\ claims'[i].keys = claims[i].keys
                                    /\ claims'[i].at = claims[i].at,
           UNCHANGED <<server, offered>>
    PROVE  KeyInv'
<1> USE DEF KeyInv
<1>1. PlanIsOwned'
    BY DEF PlanIsOwned, LocalPCs, PlanPCs
<1>2. OfferedIsBelow'
    BY DEF OfferedIsBelow
<1>3. ClaimedIsOffered'
    BY DEF ClaimedIsOffered, Spent, At
<1> QED
    BY <1>1, <1>2, <1>3

\* Pruning keeps the one-time keys; a state of the old format gets its marks.
LEMMA PruneKeyInv ==
    ASSUME KeyInv, Prune
    PROVE  /\ KeyInv'
           /\ device'.otpk = device.otpk /\ offered' = offered
           /\ DOMAIN claims' = DOMAIN claims
           /\ \A j \in DOMAIN claims : /\ claims'[j].keys = claims[j].keys
                                       /\ claims'[j].at = claims[j].at
<1> USE DEF KeyInv
<1> DEFINE u == Min(run.held \cup {run.day})
           d == operation_prune(run.base, u)
<1>1. UNCHANGED <<plan, server, log, day, offered>> /\ run.pc = "read" /\ plan = None
    BY DEF Prune, PlanIsOwned, LocalPCs
<1>2. run \in [pc : LocalPCs, counts : [Kinds -> Nat], day : Nat, held : SUBSET Nat,
               base : DeviceState]
    BY <1>1 DEF Runs, LocalPCs
<1>3. u \in Nat
    <2>1. run.held \cup {run.day} \subseteq Nat /\ run.held \cup {run.day} # {}
        BY <1>2
    <2> QED
        BY <2>1, MinIsLeast
<1>4. CASE Fail /\ UNCHANGED <<device, row, claims>>
    <2>1. Runs' /\ run'.pc = "idle"
        BY <1>4, RestRuns
    <2>2. KeyInv'
        BY <1>1, <1>4, <2>1, RunKeyInv DEF Types, LocalPCs, PlanPCs
    <2> QED
        BY <1>1, <1>4, <2>2
<1>5. CASE /\ device = run.base /\ device' = d
           /\ row' = [row EXCEPT !.rotated = d.created]
           /\ claims' = [i \in DOMAIN claims |->
                            [claims[i] EXCEPT !.marker = @ /\ claims[i].spk \in PairIds(d)]]
           /\ Goto("pruned")
    <2> DEFINE e == decode_device_state(device, u)
               kept == {p \in e.retired : u <= p.retain}
    <2>1. /\ e \in DeviceState
          /\ e.otpk = device.otpk /\ e.pending = device.pending
          /\ \A k \in Kinds : \A id \in offered[k] : id < e.next[k]
        BY <1>3, DecodedState
    <2>2. d = [[e EXCEPT !.retired = kept] EXCEPT !.format = 2]
        BY <1>5 DEF operation_prune, encode_device_state, prune_retired
    <2>3. kept \in SUBSET [id : Nat, retain : Nat]
        BY <2>1 DEF DeviceState
    <2>4. d \in DeviceState /\ d.otpk = e.otpk /\ d.pending = e.pending /\ d.format = 2
          /\ d.next = e.next /\ d.created \in Nat
        <3> HIDE DEF d, e, kept
        <3> QED
            BY <2>1, <2>2, <2>3 DEF DeviceState
    <2> HIDE DEF d, e, kept
    <2>5. device.pending = None
        BY <1>1 DEF PlanIsOwned
    <2>6. /\ claims' \in Seq(Messages)
          /\ DOMAIN claims' = DOMAIN claims
          /\ \A j \in DOMAIN claims : /\ claims'[j].keys = claims[j].keys
                                      /\ claims'[j].at = claims[j].at
        <3>1. claims \in Seq(Messages) /\ \A j \in DOMAIN claims : claims[j] \in Messages
            BY DEF Types
        <3> DEFINE f(j) == [claims[j] EXCEPT !.marker = @ /\ claims[j].spk \in PairIds(d)]
        <3>2. \A j \in DOMAIN claims : /\ f(j) \in Messages
                                      /\ f(j).keys = claims[j].keys /\ f(j).at = claims[j].at
            BY <3>1 DEF Messages
        <3>3. claims' = [j \in DOMAIN claims |-> f(j)]
            BY <1>5
        <3> HIDE DEF f
        <3> QED
            BY <3>1, <3>2, <3>3
    <2>7. Runs' /\ run'.pc = "pruned"
        BY <1>2, <1>5 DEF Goto, Runs, LocalPCs, PlanPCs
    <2>8. Types'
        BY <1>1, <1>5, <2>4, <2>6 DEF Types
    <2>9. KeyInv'
        BY <1>1, <1>5, <2>1, <2>4, <2>5, <2>6, <2>7, <2>8, RewriteKeyInv
    <2> QED
        BY <1>1, <1>5, <2>1, <2>4, <2>6, <2>9
<1> QED
    BY <1>4, <1>5 DEF Prune

\* The plan is carried out and its batch is no longer pending.
LEMMA CompleteKeyInv ==
    ASSUME KeyInv, Complete
    PROVE  /\ KeyInv'
           /\ device'.otpk = device.otpk /\ UNCHANGED <<offered, claims>>
<1> USE DEF KeyInv
<1>1. /\ UNCHANGED <<server, log, claims, day, offered>>
      /\ run.pc = "commit" /\ Fail
    BY DEF Complete
<1>2. Runs' /\ run'.pc = "idle"
    BY <1>1, RestRuns
<1>3. CASE UNCHANGED <<device, row, plan>>
    <2>1. KeyInv'
        BY <1>1, <1>2, <1>3, RunKeyInv DEF Types, LocalPCs, PlanPCs
    <2> QED
        BY <1>1, <1>3, <2>1
<1>4. CASE /\ device = plan.state /\ device' = commit_pending_upload(plan.state)
           /\ row' = [bundle |-> device.bundle, rotated |-> device.created]
           /\ plan' = None
    <2>1. device \in DeviceState /\ device.format = 2
        BY <1>1 DEF Types, PlanIsOwned, PlanPCs
    <2>2. /\ device' \in DeviceState /\ device'.otpk = device.otpk /\ device'.pending = None
          /\ device'.format = 2 /\ device'.next = device.next
        BY <1>4, <2>1 DEF commit_pending_upload, DeviceState
    <2>3. Types'
        BY <1>1, <1>4, <2>1, <2>2 DEF Types, DeviceState
    <2>4. \A k \in Kinds : \A id \in offered[k] : id < device'.next[k]
        BY <2>1, <2>2 DEF OfferedIsBelow
    <2>5. KeyInv'
        BY <1>1, <1>2, <1>4, <2>2, <2>3, <2>4, RewriteKeyInv
    <2> QED
        BY <1>1, <2>2, <2>5
<1> QED
    BY <1>3, <1>4 DEF Complete

\* The batch of a plan reaches the server: its keys are stored on the device.
LEMMA UploadKeyInv ==
    ASSUME KeyInv, Upload
    PROVE  /\ KeyInv'
           /\ UNCHANGED <<device, claims>>
           /\ \A k \in Kinds : /\ offered[k] \subseteq offered'[k]
                                /\ offered'[k] \subseteq offered[k] \cup device.otpk[k]
<1> USE DEF KeyInv
<1>1. UNCHANGED <<device, row, plan, log, claims, day>> /\ run.pc = "prepared"
    BY DEF Upload
<1>2. plan # None /\ plan \in Plans
    BY <1>1 DEF PlanIsOwned, PlanPCs, Types
<1>3. Fail \/ \E pc \in PlanPCs : Goto(pc)
    BY DEF Upload, PlanPCs
<1>4. Runs' /\ run'.pc \in {"idle"} \cup PlanPCs
    BY <1>1, <1>3, RestRuns, GotoRuns DEF PlanPCs
<1>5. CASE UNCHANGED <<server, offered>>
    <2>1. KeyInv'
        BY <1>1, <1>2, <1>4, <1>5, RunKeyInv DEF Types, LocalPCs, PlanPCs
    <2> QED
        BY <1>1, <1>5, <2>1
<1>6. CASE replenish(plan.upload)
    <2> DEFINE keys == plan.upload.keys
               stored == [k \in Kinds |-> server.stored[k] \cup keys[k]]
    <2>1. /\ keys \in KeySets
          /\ device.format = 2
          /\ \A k \in Kinds : /\ keys[k] \subseteq device.otpk[k] /\ IsFiniteSet(keys[k])
                               /\ \A id \in keys[k] : id < device.next[k]
        BY <1>2 DEF PlanIsOwned, Plans, Batch
    <2>2. /\ offered' = [k \in Kinds |-> offered[k] \cup keys[k]]
          /\ server'.stored = stored
          /\ server' \in [stored : {stored}, spk : Nat, bundle : Nat]
        BY <1>2, <1>6 DEF replenish, Types, Plans, DeviceState
    <2> HIDE DEF keys
    <2>3. /\ stored \in KeySets /\ offered' \in KeySets
          /\ \A k \in Kinds : /\ stored[k] = server.stored[k] \cup keys[k]
                               /\ offered'[k] = offered[k] \cup keys[k]
        BY <2>1, <2>2 DEF Types, KeySets
    <2>4. \A k \in Kinds : IsFiniteSet(stored[k])
        BY <2>1, <2>3, FS_Union DEF Types
    <2> HIDE DEF stored
    <2>5. Types'
        BY <1>1, <2>2, <2>3, <2>4 DEF Types
    <2>6. PlanIsOwned'
        BY <1>1, <1>2, <1>4 DEF PlanIsOwned, LocalPCs, PlanPCs
    <2>7. OfferedIsBelow'
        BY <1>1, <2>1, <2>3 DEF OfferedIsBelow
    <2>8. ClaimedIsOffered'
        BY <1>1, <2>2, <2>3 DEF ClaimedIsOffered, Spent, At
    <2> QED
        BY <1>1, <1>4, <2>1, <2>3, <2>5, <2>6, <2>7, <2>8
<1> QED
    BY <1>5, <1>6 DEF Upload

\* Opening a first message, or opening it again, takes its keys from the state.
LEMMA OpenKeyInv ==
    ASSUME KeyInv, NEW i \in DOMAIN claims, Open(i) \/ Repeat(i)
    PROVE  /\ KeyInv'
           /\ \A k \in Kinds : /\ claims[i].keys[k] \subseteq device.otpk[k]
                                /\ device'.otpk[k] = device.otpk[k] \ claims[i].keys[k]
           /\ offered' = offered
           /\ DOMAIN claims' = DOMAIN claims
           /\ \A j \in DOMAIN claims : /\ claims'[j].keys = claims[j].keys
                                       /\ At(j, "opened")' <=> (At(j, "opened") \/ j = i)
<1> USE DEF KeyInv
<1> DEFINE d == decode_device_state(device, day)
           left == [k \in Kinds |-> d.otpk[k] \ claims[i].keys[k]]
<1>1. /\ UNCHANGED <<row, plan, run, server, log, day, offered>> /\ plan = None
      /\ CanOpen(d, claims[i]) /\ device' = accept_initial(d, claims[i])
    BY DEF Open, Repeat, maintenanceVars
<1>2. /\ d \in DeviceState
      /\ d.otpk = device.otpk /\ d.pending = device.pending
      /\ \A k \in Kinds : \A id \in offered[k] : id < d.next[k]
    BY DecodedState DEF Types
<1>3. \A k \in Kinds : claims[i].keys[k] \subseteq device.otpk[k]
    BY <1>1, <1>2 DEF CanOpen
<1>4. left \in KeySets
    BY <1>2 DEF DeviceState, KeySets
<1>5. device' = [[d EXCEPT !.otpk = left] EXCEPT !.format = 2]
    BY <1>1 DEF accept_initial, encode_device_state
<1>6. \A k \in Kinds : left[k] = device.otpk[k] \ claims[i].keys[k]
    BY <1>2
<1> HIDE DEF d, left
<1>7. /\ device' \in DeviceState /\ device'.otpk = left /\ device'.pending = device.pending
      /\ device'.format = 2 /\ device'.next = d.next
    BY <1>2, <1>4, <1>5 DEF DeviceState
<1>8. claims \in Seq(Messages) /\ claims[i] \in Messages
    BY DEF Types
<1>9. PICK m \in Messages : /\ claims' = [claims EXCEPT ![i] = m]
                            /\ m.keys = claims[i].keys
                            /\ m.at = "opened"
    <2>1. CASE Open(i)
        <3> DEFINE m == [claims[i] EXCEPT !.at = "opened", !.marker = TRUE, !.opened = 1]
        <3>1. m \in Messages /\ m.keys = claims[i].keys /\ m.at = "opened"
            BY <1>8 DEF Messages
        <3>2. claims' = [claims EXCEPT ![i] = m]
            BY <2>1 DEF Open
        <3> QED
            BY <3>1, <3>2
    <2>2. CASE Repeat(i)
        <3> DEFINE m == [claims[i] EXCEPT !.opened = 2]
        <3>1. m \in Messages /\ m.keys = claims[i].keys /\ m.at = "opened"
            BY <1>8, <2>2 DEF Messages, Repeat, At
        <3>2. claims' = [claims EXCEPT ![i] = m]
            BY <2>2 DEF Repeat
        <3> QED
            BY <3>1, <3>2
    <2> QED
        BY <2>1, <2>2
<1>10. /\ claims' \in Seq(Messages) /\ DOMAIN claims' = DOMAIN claims
       /\ \A j \in DOMAIN claims : /\ claims'[j].keys = claims[j].keys
                                   /\ At(j, "opened")' <=> (At(j, "opened") \/ j = i)
    BY <1>8, <1>9 DEF At
<1>11. Types' /\ Runs'
    BY <1>1, <1>7, <1>10 DEF Types, Runs
<1>12. PlanIsOwned'
    BY <1>1, <1>7 DEF PlanIsOwned
<1>13. OfferedIsBelow'
    BY <1>1, <1>2, <1>7 DEF OfferedIsBelow
<1>14. ClaimedIsOffered'
    <2> SUFFICES ASSUME NEW k \in Kinds
                 PROVE  /\ server'.stored[k] \subseteq offered'[k]
                        /\ \A j \in DOMAIN claims' : claims'[j].keys[k] \subseteq offered'[k]
                        /\ \A j \in Spent' : claims'[j].keys[k] \cap device'.otpk[k] = {}
        BY DEF ClaimedIsOffered
    <2>1. /\ server.stored[k] \subseteq offered[k]
          /\ \A j \in DOMAIN claims : claims[j].keys[k] \subseteq offered[k]
          /\ \A j \in Spent : claims[j].keys[k] \cap device.otpk[k] = {}
        BY DEF ClaimedIsOffered
    <2>2. \A j \in Spent' : j \in DOMAIN claims /\ (j = i \/ j \in Spent)
        BY <1>10 DEF Spent
    <2>3. \A j \in Spent' : claims'[j].keys[k] \cap device'.otpk[k] = {}
        BY <1>6, <1>7, <1>10, <2>1, <2>2
    <2> QED
        BY <1>1, <1>10, <2>1, <2>3
<1> QED
    BY <1>1, <1>3, <1>6, <1>7, <1>10, <1>11, <1>12, <1>13, <1>14

\* A message that was opened names no key the device still has.
LEMMA RepeatTakesNothing ==
    ASSUME KeyInv, NEW i \in DOMAIN claims, Repeat(i)
    PROVE  \A k \in Kinds : claims[i].keys[k] = {}
<1>1. i \in Spent
    BY DEF Repeat, Spent
<1>2. \A k \in Kinds : claims[i].keys[k] \subseteq device.otpk[k]
    BY OpenKeyInv
<1> QED
    BY <1>1, <1>2 DEF KeyInv, ClaimedIsOffered

\* A batch takes ids from the mark on, and moves the mark past them.
LEMMA ReplenishedState ==
    ASSUME NEW d \in DeviceState, NEW add \in [Kinds -> Nat], d.pending = None,
           MayReplenish(d, add), NEW e, e = prepare_replenishment(d, add)
    PROVE  /\ e \in DeviceState /\ e.format = d.format /\ e.pending \in Batch
           /\ \A k \in Kinds :
                /\ e.otpk[k] = d.otpk[k] \cup e.pending.keys[k]
                /\ IsFiniteSet(e.pending.keys[k])
                /\ \A id \in e.pending.keys[k] : d.next[k] <= id /\ id < e.next[k]
                /\ d.next[k] <= e.next[k]
<1> DEFINE made == [k \in Kinds |-> take_next_ids(d.next[k], add[k])]
           otpk == [k \in Kinds |-> d.otpk[k] \cup made[k]]
           next == [k \in Kinds |-> IF add[k] = 0 THEN d.next[k]
                                     ELSE AfterTaking(d.next[k], add[k])]
           batch == [rotation |-> FALSE, keys |-> made]
<1>1. e = [d EXCEPT !.otpk = otpk, !.next = next, !.pending = batch]
    BY DEF prepare_replenishment
<1>2. \A k \in Kinds : d.next[k] \in Nat /\ add[k] \in Nat /\ d.otpk[k] \in SUBSET Nat
    BY DEF DeviceState, KeySets
<1>3. \A k \in Kinds : made[k] = d.next[k] .. (d.next[k] + add[k] - 1)
    BY DEF take_next_ids
<1>4. \A k \in Kinds : next[k] = d.next[k] + add[k]
    <2> TAKE k \in Kinds
    <2>1. CASE add[k] = 0
        BY <1>2, <2>1
    <2>2. CASE add[k] # 0
        <3>1. d.next[k] + add[k] - 1 <= KEY_ID_MAX
            BY <1>2, <2>2 DEF MayReplenish
        <3>2. AfterTaking(d.next[k], add[k]) = d.next[k] + add[k]
            BY <1>2, <3>1, ConstantsAreNat DEF AfterTaking
        <3> QED
            BY <2>2, <3>2
    <2> QED
        BY <2>1, <2>2
<1>5. \A k \in Kinds : otpk[k] = d.otpk[k] \cup made[k]
    OBVIOUS
<1> DEFINE isDomain(f) == f = [k \in Kinds |-> f[k]]
<1>6. isDomain(made) /\ isDomain(next) /\ isDomain(otpk)
    OBVIOUS
<1> HIDE DEF made, otpk, next
<1>7. \A k \in Kinds : /\ made[k] \in SUBSET Nat
                       /\ IsFiniteSet(made[k])
                       /\ \A id \in made[k] : d.next[k] <= id /\ id < next[k]
                       /\ next[k] \in Nat /\ d.next[k] <= next[k]
    <2> TAKE k \in Kinds
    <2>1. IsFiniteSet(made[k])
        <3>1. d.next[k] \in Int /\ d.next[k] + add[k] - 1 \in Int
            BY <1>2
        <3> QED
            BY <1>3, <3>1, FS_Interval
    <2>2. made[k] \in SUBSET Nat /\ \A id \in made[k] : d.next[k] <= id /\ id < next[k]
        BY <1>2, <1>3, <1>4
    <2> QED
        BY <1>2, <1>4, <2>1, <2>2
<1>8. made \in KeySets /\ otpk \in KeySets /\ next \in [Kinds -> Nat]
    BY <1>2, <1>5, <1>6, <1>7 DEF KeySets
<1>9. batch \in Batch /\ batch.keys = made
    BY <1>8 DEF Batch
<1> HIDE DEF batch
<1>10. /\ e \in DeviceState /\ e.format = d.format /\ e.otpk = otpk /\ e.next = next
       /\ e.pending = batch
    BY <1>1, <1>8, <1>9 DEF DeviceState
<1> QED
    BY <1>5, <1>7, <1>9, <1>10

\* A rotation leaves the one-time keys and their marks alone.
LEMMA RotatedState ==
    ASSUME NEW d \in DeviceState, NEW t \in Nat, d.pending = None,
           NEW e, e = prepare_rotation(d, t)
    PROVE  /\ e \in DeviceState /\ e.format = d.format /\ e.pending \in Batch
           /\ e.otpk = d.otpk /\ e.next = d.next
           /\ \A k \in Kinds : e.pending.keys[k] = {}
<1> DEFINE none == [k \in Kinds |-> {}]
           batch == [rotation |-> TRUE, keys |-> none]
           kept == {p \in d.retired : t <= p.retain}
           retired == kept \cup {[id |-> d.spk, retain |-> t + RetentionDays]}
<1>1. e = [[d EXCEPT !.retired = kept] EXCEPT
              !.retired = retired, !.spk = d.spk + 1, !.created = t,
              !.bundle = d.bundle + 1, !.pending = batch]
    <2>1. prune_retired(d, t) = [d EXCEPT !.retired = kept]
        BY DEF prune_retired
    <2>2. [d EXCEPT !.retired = kept].retired = kept
        BY DEF DeviceState
    <2> HIDE DEF kept
    <2> QED
        BY <2>1, <2>2 DEF prepare_rotation
<1>2. kept \in SUBSET [id : Nat, retain : Nat]
    BY DEF DeviceState
<1>3. retired \in SUBSET [id : Nat, retain : Nat] /\ d.spk + 1 \in Nat /\ d.bundle + 1 \in Nat
    BY <1>2, ConstantsAreNat DEF DeviceState
<1>4. batch \in Batch /\ \A k \in Kinds : batch.keys[k] = {}
    BY DEF Batch, KeySets
<1> HIDE DEF batch, kept, retired
<1> QED
    BY <1>1, <1>2, <1>3, <1>4 DEF DeviceState

\* Preparing a plan: a new batch is stored with the state that owns its keys.
LEMMA PrepareKeyInv ==
    ASSUME KeyInv, Prepare
    PROVE  /\ KeyInv'
           /\ UNCHANGED <<offered, claims>>
           /\ \A k \in Kinds : /\ device.otpk[k] \subseteq device'.otpk[k]
                                /\ (device'.otpk[k] \ device.otpk[k]) \cap offered[k] = {}
<1> USE DEF KeyInv
<1> DEFINE add == Needed(run.counts)
           new == IF rotate THEN prepare_rotation(run.base, run.day)
                  ELSE prepare_replenishment(run.base, add)
<1>1. UNCHANGED <<row, server, log, claims, day, offered>> /\ run.pc = "reread"
    BY DEF Prepare
<1>2. plan = None /\ device.format = 2 /\ device.pending = None
    BY <1>1 DEF PlanIsOwned, LocalPCs
<1>3. CASE Fail /\ UNCHANGED <<device, plan>>
    <2>1. Runs' /\ run'.pc = "idle"
        BY <1>3, RestRuns
    <2>2. KeyInv'
        BY <1>1, <1>3, <2>1, RunKeyInv DEF Types, LocalPCs, PlanPCs
    <2> QED
        BY <1>1, <1>3, <2>2
<1>4. CASE /\ device = run.base /\ (rotate \/ MayReplenish(run.base, add))
           /\ device' = new
           /\ plan' = [stage |-> "prepared", state |-> new, upload |-> new.pending, seq |-> 0]
           /\ run' = [pc |-> "prepared"]
    <2>1. run.counts \in [Kinds -> Nat] /\ run.day \in Nat /\ device \in DeviceState
        BY <1>1 DEF Runs, LocalPCs, Types
    <2>2. add \in [Kinds -> Nat]
        BY <2>1, ConstantsAreNat DEF Needed
    <2> HIDE DEF add
    <2>3. /\ new \in DeviceState /\ new.format = 2 /\ new.pending \in Batch
          /\ \A k \in Kinds :
                /\ new.otpk[k] = device.otpk[k] \cup new.pending.keys[k]
                /\ IsFiniteSet(new.pending.keys[k])
                /\ \A id \in new.pending.keys[k] : device.next[k] <= id /\ id < new.next[k]
                /\ device.next[k] <= new.next[k]
        <3>1. CASE rotate
            <4>1. new = prepare_rotation(device, run.day)
                BY <1>4, <3>1
            <4> HIDE DEF new
            <4>2. /\ new \in DeviceState /\ new.format = 2 /\ new.pending \in Batch
                  /\ new.otpk = device.otpk /\ new.next = device.next
                  /\ \A k \in Kinds : new.pending.keys[k] = {}
                BY <1>2, <2>1, <4>1, RotatedState
            <4>3. \A k \in Kinds : device.next[k] \in Nat
                BY <2>1 DEF DeviceState
            <4>4. IsFiniteSet({})
                BY FS_EmptySet
            <4>5. ASSUME NEW k \in Kinds
                  PROVE  /\ new.otpk[k] = device.otpk[k] \cup new.pending.keys[k]
                         /\ IsFiniteSet(new.pending.keys[k])
                         /\ \A id \in new.pending.keys[k] :
                                device.next[k] <= id /\ id < new.next[k]
                         /\ device.next[k] <= new.next[k]
                <5>1. new.pending.keys[k] = {} /\ new.otpk = device.otpk /\ new.next = device.next
                    BY <4>2
                <5> QED
                    BY <4>3, <4>4, <5>1
            <4> QED
                BY <4>2, <4>5
        <3>2. CASE ~rotate
            <4>1. new = prepare_replenishment(device, add) /\ MayReplenish(device, add)
                BY <1>4, <3>2
            <4> HIDE DEF new
            <4> QED
                BY <1>2, <2>1, <2>2, <4>1, ReplenishedState
        <3> QED
            BY <3>1, <3>2
    <2> HIDE DEF new
    <2>4. plan' \in Plans /\ plan' # None /\ plan'.upload = new.pending
        BY <1>4, <2>3 DEF Plans, None
    <2>5. Types'
        BY <1>1, <1>4, <2>3, <2>4 DEF Types
    <2>6. Runs' /\ run'.pc = "prepared"
        BY <1>4 DEF Runs, LocalPCs, PlanPCs
    <2>7. PlanIsOwned'
        BY <1>4, <2>3, <2>4, <2>6 DEF PlanIsOwned, LocalPCs, PlanPCs
    <2>8. \A k \in Kinds : \A id \in offered[k] : id \in Nat /\ id < device.next[k]
        BY <1>2 DEF OfferedIsBelow, Types, KeySets
    <2>9. \A k \in Kinds : device.next[k] \in Nat /\ new.next[k] \in Nat
                           /\ new.pending.keys[k] \in SUBSET Nat
        BY <2>1, <2>3 DEF DeviceState, Batch, KeySets
    <2>10. OfferedIsBelow'
        BY <1>1, <1>4, <2>3, <2>8, <2>9 DEF OfferedIsBelow
    <2>11. \A k \in Kinds : new.pending.keys[k] \cap offered[k] = {}
        BY <2>3, <2>8, <2>9
    <2>12. ClaimedIsOffered'
        <3>1. \A i \in Spent : i \in DOMAIN claims
            BY DEF Spent
        <3>2. Spent' = Spent
            BY <1>1 DEF Spent, At
        <3> QED
            BY <1>1, <1>4, <2>3, <2>11, <3>1, <3>2 DEF ClaimedIsOffered
    <2>13. \A k \in Kinds : /\ device.otpk[k] \subseteq device'.otpk[k]
                            /\ (device'.otpk[k] \ device.otpk[k]) \cap offered[k] = {}
        BY <1>4, <2>3, <2>11
    <2> QED
        BY <1>1, <2>5, <2>6, <2>7, <2>10, <2>12, <2>13
<1> QED
    BY <1>3, <1>4 DEF Prepare

\* Every step preserves the inductive invariant.
LEMMA NextKeyInv == KeyInv /\ [PrekeyNext]_prekeyVars => KeyInv'
<1> SUFFICES ASSUME KeyInv, [PrekeyNext]_prekeyVars PROVE KeyInv'
    OBVIOUS
<1>1. CASE UNCHANGED prekeyVars
    BY <1>1 DEF prekeyVars, maintenanceVars, KeyInv, Types, Runs, PlanIsOwned,
        OfferedIsBelow, ClaimedIsOffered, Spent, At
<1>2. CASE PrekeyNext
    BY <1>2, MaintainKeyInv, ReadContextKeyInv, PruneKeyInv, RereadKeyInv, PrepareKeyInv,
        UploadKeyInv, StageKeyInv, LogKeyInv, CompleteKeyInv, ClaimKeyInv, OutsideKeyInv,
        MessageKeyInv, OpenKeyInv DEF PrekeyNext, MaintenanceStep
<1> QED
    BY <1>1, <1>2

\* The inductive invariant holds throughout.
LEMMA SpecKeyInv == PrekeySpec => []KeyInv
BY InitKeyInv, NextKeyInv, PTL DEF PrekeySpec

-----------------------------------------------------------------------------
(* Prekeys implements KeyLife. *)

SpentKeys == UNION {KeySet(claims[i].keys) : i \in Spent}

\* The keys of a set of pools.
LEMMA KeySetMembers ==
    ASSUME NEW f, NEW x
    PROVE  x \in KeySet(f) <=> \E k \in Kinds : \E id \in f[k] : x = <<k, id>>
BY DEF KeySet

\* A step that leaves the pools and the opened messages as they are stutters.
LEMMA StutterLife ==
    ASSUME device'.otpk = device.otpk, offered' = offered,
           DOMAIN claims \subseteq DOMAIN claims',
           \A j \in DOMAIN claims : /\ claims'[j].keys = claims[j].keys
                                    /\ At(j, "opened")' <=> At(j, "opened"),
           \A j \in DOMAIN claims' \ DOMAIN claims : ~At(j, "opened")'
    PROVE  UNCHANGED Life!lifeVars
<1>1. Spent' = Spent /\ \A j \in Spent : claims'[j].keys = claims[j].keys
    BY DEF Spent
<1>2. KeySet(device.otpk)' = KeySet(device.otpk) /\ KeySet(offered)' = KeySet(offered)
    BY DEF KeySet
<1>3. \A j \in Spent : KeySet(claims[j].keys)' = KeySet(claims[j].keys)
    BY <1>1 DEF KeySet
<1>4. SpentKeys' = SpentKeys
    BY <1>1, <1>3 DEF SpentKeys
<1> QED
    BY <1>2, <1>4 DEF Life!lifeVars, SpentKeys

\* New keys are made: none was offered or spent.
LEMMA PrepareLife ==
    ASSUME KeyInv, Prepare
    PROVE  Life!Make
<1>1. /\ UNCHANGED <<offered, claims>>
      /\ \A k \in Kinds : /\ device.otpk[k] \subseteq device'.otpk[k]
                           /\ (device'.otpk[k] \ device.otpk[k]) \cap offered[k] = {}
    BY PrepareKeyInv
<1>2. KeySet(offered)' = KeySet(offered)
    BY <1>1 DEF KeySet
<1>3. SpentKeys' = SpentKeys
    BY <1>1 DEF SpentKeys, Spent, At, KeySet
<1>4. SpentKeys \subseteq KeySet(offered)
    BY KeySetMembers DEF SpentKeys, Spent, KeyInv, ClaimedIsOffered
<1>5. KeySet(device.otpk) \subseteq KeySet(device'.otpk)
    BY <1>1, KeySetMembers
<1>6. (KeySet(device'.otpk) \ KeySet(device.otpk)) \cap KeySet(offered) = {}
    BY <1>1, KeySetMembers
<1> QED
    BY <1>2, <1>3, <1>4, <1>5, <1>6 DEF Life!Make, SpentKeys

\* Keys are offered only when the device stores them.
LEMMA UploadLife ==
    ASSUME KeyInv, Upload
    PROVE  Life!Offer
<1>1. /\ UNCHANGED <<device, claims>>
      /\ \A k \in Kinds : /\ offered[k] \subseteq offered'[k]
                           /\ offered'[k] \subseteq offered[k] \cup device.otpk[k]
    BY UploadKeyInv
<1>2. KeySet(device.otpk)' = KeySet(device.otpk)
    BY <1>1 DEF KeySet
<1>3. SpentKeys' = SpentKeys
    BY <1>1 DEF SpentKeys, Spent, At, KeySet
<1>4. /\ KeySet(offered) \subseteq KeySet(offered')
      /\ KeySet(offered') \ KeySet(offered) \subseteq KeySet(device.otpk)
    BY <1>1, KeySetMembers
<1> QED
    BY <1>2, <1>3, <1>4 DEF Life!Offer, SpentKeys

\* The keys of an opened message leave the device, and were offered before.
LEMMA OpenLife ==
    ASSUME KeyInv, NEW i \in DOMAIN claims, Open(i)
    PROVE  Life!Spend
<1> DEFINE mine == KeySet(claims[i].keys)
<1>1. /\ \A k \in Kinds : /\ claims[i].keys[k] \subseteq device.otpk[k]
                           /\ device'.otpk[k] = device.otpk[k] \ claims[i].keys[k]
      /\ offered' = offered
      /\ DOMAIN claims' = DOMAIN claims
      /\ \A j \in DOMAIN claims : /\ claims'[j].keys = claims[j].keys
                                  /\ At(j, "opened")' <=> (At(j, "opened") \/ j = i)
    BY OpenKeyInv
<1>2. KeySet(offered)' = KeySet(offered)
    BY <1>1 DEF KeySet
<1>3. Spent' = Spent \cup {i}
    BY <1>1 DEF Spent
<1>4. \A j \in Spent' : KeySet(claims[j].keys)' = KeySet(claims[j].keys)
    BY <1>1, <1>3 DEF KeySet, Spent
<1>5. SpentKeys' = SpentKeys \cup mine
    BY <1>3, <1>4 DEF SpentKeys
<1>6. mine \subseteq KeySet(device.otpk) /\ mine \subseteq KeySet(offered)
    BY <1>1, KeySetMembers DEF KeyInv, ClaimedIsOffered
<1>7. SpentKeys \cap KeySet(device.otpk) = {}
    BY KeySetMembers DEF SpentKeys, KeyInv, ClaimedIsOffered
<1>8. KeySet(device'.otpk) = KeySet(device.otpk) \ mine
    BY <1>1, KeySetMembers
<1>9. SpentKeys' \ SpentKeys = mine
    BY <1>5, <1>6, <1>7
<1> QED
    BY <1>2, <1>5, <1>6, <1>8, <1>9 DEF Life!Spend, SpentKeys

\* Every other step changes no pool, and no message becomes an opened one.
LEMMA OtherLife ==
    ASSUME KeyInv, [PrekeyNext]_prekeyVars,
           ~Prepare, ~Upload, \A i \in DOMAIN claims : ~Open(i)
    PROVE  UNCHANGED Life!lifeVars
<1>1. CASE UNCHANGED <<device, offered, claims>>
    BY <1>1, StutterLife DEF At
<1>2. CASE Claim
    <2>1. /\ device' = device /\ offered' = offered
          /\ DOMAIN claims \subseteq DOMAIN claims'
          /\ \A j \in DOMAIN claims : claims'[j] = claims[j]
          /\ \A j \in DOMAIN claims' \ DOMAIN claims : ~At(j, "opened")'
        BY <1>2, ClaimKeyInv
    <2> QED
        BY <2>1, StutterLife DEF At
<1>3. CASE Prune
    <2>1. /\ device'.otpk = device.otpk /\ offered' = offered
          /\ DOMAIN claims' = DOMAIN claims
          /\ \A j \in DOMAIN claims : /\ claims'[j].keys = claims[j].keys
                                      /\ claims'[j].at = claims[j].at
        BY <1>3, PruneKeyInv
    <2> QED
        BY <2>1, StutterLife DEF At
<1>4. CASE Complete
    BY <1>4, CompleteKeyInv, StutterLife DEF At
<1>5. ASSUME NEW i \in DOMAIN claims, Reject(i) \/ Hold(i) \/ Expire(i)
      PROVE  UNCHANGED Life!lifeVars
    BY <1>5, MessageKeyInv, StutterLife
<1>6. ASSUME NEW i \in DOMAIN claims, Repeat(i)
      PROVE  UNCHANGED Life!lifeVars
    <2>1. /\ \A k \in Kinds : device'.otpk[k] = device.otpk[k] \ claims[i].keys[k]
          /\ KeyInv'
          /\ offered' = offered
          /\ DOMAIN claims' = DOMAIN claims
          /\ \A j \in DOMAIN claims : /\ claims'[j].keys = claims[j].keys
                                      /\ At(j, "opened")' <=> (At(j, "opened") \/ j = i)
        BY <1>6, OpenKeyInv
    <2>2. \A k \in Kinds : device'.otpk[k] = device.otpk[k]
        BY <1>6, <2>1, RepeatTakesNothing
    <2>3. device.otpk \in KeySets /\ device'.otpk \in KeySets
        BY <2>1 DEF KeyInv, Types, DeviceState
    <2>4. device'.otpk = device.otpk
        BY <2>2, <2>3 DEF KeySets
    <2>5. At(i, "opened")
        BY <1>6 DEF Repeat
    <2> QED
        BY <2>1, <2>4, <2>5, StutterLife
<1> QED
    BY <1>1, <1>2, <1>3, <1>4, <1>5, <1>6 DEF PrekeyNext, MaintenanceStep, prekeyVars,
        Maintain, ReadContext, Reread, MarkUploadAccepted, PrepareOwnRotation, Reconcile,
        AppendRecord, Recheck, OtherAppend, Crash, Tick

\* The device keeps the promise of KeyLife: a one-time key is made once, offered
\* only while its private half is stored, and never comes back once a first
\* message has used it, whatever is lost, repeated or cut short (take_next_id,
\* persistPrepared, replenish, accept_initial).
THEOREM PrekeysImplementKeyLife == PrekeySpec => KeepsPromise
<1>1. PrekeyInit => Life!LifeInit
    BY DEF PrekeyInit, Life!LifeInit, Spent
<1>2. KeyInv /\ [PrekeyNext]_prekeyVars => [Life!LifeNext]_(Life!lifeVars)
    <2> SUFFICES ASSUME KeyInv, [PrekeyNext]_prekeyVars
                 PROVE  Life!LifeNext \/ UNCHANGED Life!lifeVars
        OBVIOUS
    <2> QED
        BY PrepareLife, UploadLife, OpenLife, OtherLife DEF Life!LifeNext
<1> QED
    BY <1>1, <1>2, SpecKeyInv, PTL DEF PrekeySpec, KeepsPromise, Life!LifeSpec
=============================================================================
