------------------------ MODULE BuildCommandProofs ------------------------
(***************************************************************************)
(* Proofs about `roughroute build`: the disk's balance, the gate's two     *)
(* promises and the removal of the extract, for any disk, any server and   *)
(* any number of runs.                                                     *)
(***************************************************************************)
EXTENDS BuildCommand, TLAPS

\* Which run has an extract, and when.
FileInv ==
    /\ pc \in {"probe", "gate", "get", "copy", "remove"} => job.url
    /\ pc \in {"probe", "gate", "get"} => scratch = None
    /\ pc \in {"copy", "remove"} => scratch # None
    /\ pc \in {"build", "write"} => (scratch # None <=> job.url)
    /\ failed => pc = "idle"

\* What is fetched was announced, and is under the ceiling of this run.
LimitInv ==
    /\ pc # "idle" \/ scratch # None => ceiling = Resolved(job.flag, job.env)
    /\ pc = "get" => probed # None /\ probed <= ceiling
    /\ scratch # None => scratch <= coming /\ (foreseen => coming <= ceiling)

\* Twice the extract and the floor were free; the extract takes its part
\* first, then the graph, which is no larger.
RoomInv ==
    foreseen =>
        /\ pc = "get" => free >= 2 * probed + Floor
        /\ pc = "copy" => free + scratch >= 2 * coming + Floor
        /\ pc = "build" /\ job.url => free >= scratch + Floor
        /\ pc = "write" /\ job.url => free + out_size >= scratch + Floor
        /\ pc = "remove" => free >= Floor

GraphInv ==
    pc = "write" => out_size <= graph_size /\ (job.url => graph_size <= scratch)

Inv == TypeOK /\ FileInv /\ LimitInv /\ RoomInv /\ GraphInv /\ ScratchRemoved

USE SizeAssumption

----------------------------------------------------------------------------
(* The operators *)

\* A flag or a usable variable sets a ceiling; whatever does, it is a number.
LEMMA ResolvedNat ==
    ASSUME NEW flag \in Flags \cup {None}, NEW env \in Envs \cup {None}, FlagOk(flag)
    PROVE  Resolved(flag, env) \in Nat
  BY DEF Resolved, FlagOk, EnvOk, Rounded

\* A size that fits a disk is not cut by saturation.
LEMMA NeedIsExact ==
    ASSUME NEW size \in Sizes, Need(size) <= Disk
    PROVE  Need(size) = 2 * size + Floor
  BY DEF Need

LEMMA SizesAreNat == Sizes \subseteq Nat
  OBVIOUS

----------------------------------------------------------------------------
(* The invariant *)

LEMMA InitInv == Init => Inv
<1> SUFFICES ASSUME Init PROVE Inv
  OBVIOUS
<1>1. TypeOK
  <2>1. job \in [url : BOOLEAN, flag : Flags \cup {None}, env : Envs \cup {None}]
    BY DEF Init, NoJob
  <2>2. free + Bytes(scratch) + left + out_size + elsewhere = Disk
    BY DEF Init, Bytes
  <2>3. {ceiling, coming, left, out_size, graph_size, free, runs, elsewhere} \subseteq Nat
    BY DEF Init
  <2>4. scratch \in Nat \cup {None} /\ probed \in Sizes \cup {None}
    BY DEF Init
  <2>5. foreseen \in BOOLEAN /\ failed \in BOOLEAN
    BY DEF Init
  <2>6. exit \in {0, 1, 2, 137, None}
    BY DEF Init
  <2>7. pc \in {"idle", "probe", "gate", "get", "copy", "build", "write", "remove"} /\ out \in {"absent", "old", "torn", "new"}
    BY DEF Init
  <2> QED
    BY <2>1, <2>2, <2>3, <2>4, <2>5, <2>6, <2>7 DEF TypeOK
<1>2. FileInv /\ LimitInv /\ RoomInv /\ GraphInv /\ ScratchRemoved
  BY DEF Init, FileInv, LimitInv, RoomInv, GraphInv, ScratchRemoved
<1> QED
  BY <1>1, <1>2 DEF Inv

LEMMA StartStep == Inv /\ Start => Inv'
<1> SUFFICES ASSUME Inv, Start PROVE Inv'
  OBVIOUS
<1> USE DEF Inv
<1>1. PICK url \in BOOLEAN, flag \in Flags, env \in Envs :
        /\ job' = [url |-> url, flag |-> flag, env |-> env]
        /\ ceiling' = IF FlagOk(flag) THEN Resolved(flag, env) ELSE 0
        /\ IF FlagOk(flag)
           THEN pc' = (IF url THEN "probe" ELSE "build") /\ exit' = None
           ELSE pc' = "idle" /\ exit' = 2
  BY DEF Start
<1>2. ceiling' \in Nat
  BY <1>1, ResolvedNat
<1>3. TypeOK'
  <2>1. left' \in Nat /\ left' = left + Bytes(scratch) /\ Bytes(scratch') = 0
    BY DEF Start, TypeOK, Bytes
  <2>2. Bytes(scratch) \in Nat
    BY DEF TypeOK, Bytes
  <2>3. free' + Bytes(scratch') + left' + out_size' + elsewhere' = Disk
    BY <2>1, <2>2 DEF Start, TypeOK
  <2>4. job' \in [url : BOOLEAN, flag : Flags \cup {None}, env : Envs \cup {None}]
    BY <1>1
  <2>5. pc' \in {"idle", "probe", "build"} /\ exit' \in {None, 2}
    BY <1>1
  <2>6. {ceiling', coming', left', out_size', graph_size', free', runs', elsewhere'} \subseteq Nat
    BY <1>2, <2>1 DEF Start, TypeOK
  <2>7. probed' \in Sizes \cup {None} /\ scratch' \in Nat \cup {None}
    BY DEF Start
  <2>8. foreseen' \in BOOLEAN /\ failed' \in BOOLEAN
    BY DEF Start
  <2>9. out' \in {"absent", "old", "torn", "new"}
    BY DEF Start, TypeOK
  <2>10. pc' \in {"idle", "probe", "gate", "get", "copy", "build", "write", "remove"}
    BY <2>5
  <2>11. exit' \in {0, 1, 2, 137, None}
    BY <2>5
  <2> QED
    BY <2>3, <2>4, <2>6, <2>7, <2>8, <2>9, <2>10, <2>11 DEF TypeOK
<1>4. FileInv' /\ LimitInv' /\ RoomInv' /\ GraphInv' /\ ScratchRemoved'
  BY <1>1 DEF Start, FileInv, LimitInv, RoomInv, GraphInv, ScratchRemoved
<1> QED
  BY <1>3, <1>4

\* The gate.
LEMMA GateStep == Inv /\ (Probe \/ GateRefuses \/ GatePasses) => Inv'
<1> SUFFICES ASSUME Inv, Probe \/ GateRefuses \/ GatePasses PROVE Inv'
  OBVIOUS
<1> USE DEF Inv, disk, plan, past, Exit
<1>1. CASE Probe
  BY <1>1 DEF Probe, TypeOK, FileInv, LimitInv, RoomInv, GraphInv, ScratchRemoved
<1>2. CASE GateRefuses
  BY <1>2 DEF GateRefuses, TypeOK, FileInv, LimitInv, RoomInv, GraphInv, ScratchRemoved
<1>3. CASE GatePasses
  <2>1. probed \in Sizes /\ free \in Nat /\ free <= Disk
    BY <1>3 DEF GatePasses, TypeOK, Bytes
  <2>2. free >= 2 * probed + Floor
    BY <1>3, <2>1, NeedIsExact, SizesAreNat DEF GatePasses, Need
  <2> QED
    BY <1>3, <2>1, <2>2
    DEF GatePasses, TooLarge, TypeOK, FileInv, LimitInv, RoomInv, GraphInv, ScratchRemoved
<1> QED
  BY <1>1, <1>2, <1>3

\* The transfer.
LEMMA CopyStep == Inv /\ (GetFails \/ Get \/ Copy \/ CopyFails \/ Copied) => Inv'
<1> SUFFICES ASSUME Inv, GetFails \/ Get \/ Copy \/ CopyFails \/ Copied PROVE Inv'
  OBVIOUS
<1> USE DEF Inv, disk, plan, past, Exit
<1>1. CASE GetFails
  BY <1>1 DEF GetFails, TypeOK, FileInv, LimitInv, RoomInv, GraphInv, ScratchRemoved
<1>2. CASE Get
  BY <1>2 DEF Get, TypeOK, FileInv, LimitInv, RoomInv, GraphInv, ScratchRemoved, Bytes
<1>3. CASE Copy
  BY <1>3 DEF Copy, TypeOK, FileInv, LimitInv, RoomInv, GraphInv, ScratchRemoved, Bytes
<1>4. CASE CopyFails
  BY <1>4 DEF CopyFails, TypeOK, FileInv, LimitInv, RoomInv, GraphInv, ScratchRemoved
<1>5. CASE Copied
  BY <1>5 DEF Copied, TypeOK, FileInv, LimitInv, RoomInv, GraphInv, ScratchRemoved
<1> QED
  BY <1>1, <1>2, <1>3, <1>4, <1>5

\* The build and the file it writes.
LEMMA BuildStep ==
    Inv /\ (BuildFails \/ Build \/ Write \/ WriteFails \/ Written \/ Remove) => Inv'
<1> SUFFICES ASSUME Inv, BuildFails \/ Build \/ Write \/ WriteFails \/ Written \/ Remove
             PROVE  Inv'
  OBVIOUS
<1> USE DEF Inv, disk, plan, past, Exit
<1>1. CASE BuildFails
  BY <1>1 DEF BuildFails, AfterBuild, TypeOK, FileInv, LimitInv, RoomInv, GraphInv, ScratchRemoved
<1>2. CASE Build
  <2>1. PICK extract \in (IF job.url THEN {scratch} ELSE Sizes) :
          \E size \in 1..extract : graph_size' = size
    BY <1>2 DEF Build
  <2>2. extract \in Nat /\ (job.url => extract = scratch)
    BY <1>2, <2>1, SizesAreNat DEF Build, TypeOK, FileInv
  <2>3. graph_size' \in Nat /\ (job.url => graph_size' <= scratch)
    BY <2>1, <2>2
  <2> QED
    BY <1>2, <2>3 DEF Build, TypeOK, FileInv, LimitInv, RoomInv, GraphInv, ScratchRemoved, Bytes
<1>3. CASE Write
  BY <1>3 DEF Write, TypeOK, FileInv, LimitInv, RoomInv, GraphInv, ScratchRemoved, Bytes
<1>4. CASE WriteFails
  BY <1>4 DEF WriteFails, AfterBuild, TypeOK, FileInv, LimitInv, RoomInv, GraphInv,
              ScratchRemoved, Bytes
<1>5. CASE Written
  BY <1>5 DEF Written, AfterBuild, TypeOK, FileInv, LimitInv, RoomInv, GraphInv,
              ScratchRemoved, Bytes
<1>6. CASE Remove
  BY <1>6 DEF Remove, TypeOK, FileInv, LimitInv, RoomInv, GraphInv, ScratchRemoved, Bytes
<1> QED
  BY <1>1, <1>2, <1>3, <1>4, <1>5, <1>6

\* Kills, other programs, and steps that change nothing.
LEMMA OutsideStep == Inv /\ (Killed \/ OthersWrite \/ UNCHANGED vars) => Inv'
<1> SUFFICES ASSUME Inv, Killed \/ OthersWrite \/ UNCHANGED vars PROVE Inv'
  OBVIOUS
<1> USE DEF Inv, disk, plan, past, Exit
<1>1. CASE Killed
  <2>1. pc' = "idle" /\ exit' = 137 /\ UNCHANGED <<plan, disk, past>>
    BY <1>1 DEF Killed
  <2>2. exit' \in {0, 1, 2, 137, None} /\ exit' \notin {0, 1}
    BY <2>1
  <2>3. TypeOK'
    BY <2>1, <2>2 DEF TypeOK, Bytes
  <2>4. FileInv' /\ ScratchRemoved'
    BY <2>1, <2>2 DEF FileInv, ScratchRemoved
  <2>5. LimitInv'
    BY <2>1 DEF LimitInv
  <2>6. RoomInv' /\ GraphInv'
    BY <2>1 DEF RoomInv, GraphInv
  <2> QED
    BY <2>3, <2>4, <2>5, <2>6
<1>2. CASE OthersWrite
  <2>1. /\ elsewhere' = elsewhere + 1 /\ free' = free - 1 /\ free > 0 /\ foreseen' = FALSE
        /\ UNCHANGED <<pc, plan, scratch, left, out, out_size, failed, exit, runs>>
    BY <1>2 DEF OthersWrite
  <2>2. {free, elsewhere} \subseteq Nat /\ {free', elsewhere'} \subseteq Nat
    BY <2>1 DEF TypeOK
  <2>3. free' + Bytes(scratch') + left' + out_size' + elsewhere' = Disk
    BY <2>1, <2>2 DEF TypeOK, Bytes
  <2>4. foreseen' \in BOOLEAN /\ failed' \in BOOLEAN
    BY <2>1 DEF TypeOK
  <2>5. exit' \in {0, 1, 2, 137, None}
    BY <2>1 DEF TypeOK
  <2>6. TypeOK'
    BY <2>1, <2>2, <2>3, <2>4, <2>5 DEF TypeOK
  <2>7. FileInv' /\ ScratchRemoved'
    BY <2>1 DEF FileInv, ScratchRemoved
  <2>8. LimitInv'
    BY <2>1 DEF LimitInv
  <2>9. RoomInv' /\ GraphInv'
    BY <2>1 DEF RoomInv, GraphInv
  <2> QED
    BY <2>6, <2>7, <2>8, <2>9
<1>3. CASE UNCHANGED vars
  BY <1>3 DEF vars, TypeOK, FileInv, LimitInv, RoomInv, GraphInv, ScratchRemoved, Bytes
<1> QED
  BY <1>1, <1>2, <1>3

LEMMA NextInv == Inv /\ [Next]_vars => Inv'
  BY StartStep, GateStep, CopyStep, BuildStep, OutsideStep DEF Next, Working, Rest

LEMMA InvHolds == Spec => []Inv
  BY InitInv, NextInv, PTL DEF Spec

----------------------------------------------------------------------------
(* The theorems *)

\* Every variable keeps its type, and no byte of the disk is lost or counted
\* twice, through any kills and failures of cmd_build.
THEOREM TypeCorrect == Spec => []TypeOK
<1>1. Inv => TypeOK
  BY DEF Inv
<1> QED
  BY <1>1, InvHolds, PTL

\* gate_download's headroom holds through the whole transfer and the write
\* of the graph, for any disk and any server that keeps its word.
THEOREM HeadroomAlwaysKept == Spec => []HeadroomKept
<1>1. Inv => HeadroomKept
  <2> SUFFICES ASSUME Inv, job.url, foreseen, pc \in {"copy", "build", "write", "remove"}
               PROVE  free >= Floor
    BY DEF HeadroomKept
  <2>1. scratch \in Nat /\ {free, coming, out_size, graph_size} \subseteq Nat
    BY DEF Inv, TypeOK, FileInv
  <2> QED
    BY <2>1 DEF Inv, LimitInv, RoomInv, GraphInv
<1> QED
  BY <1>1, InvHolds, PTL

\* No extract outgrows the ceiling resolve_max_pbf_bytes gives this run.
THEOREM CeilingAlwaysKept == Spec => []CeilingKept
<1>1. Inv => CeilingKept
  <2> SUFFICES ASSUME Inv, foreseen, scratch # None
               PROVE  \/ job.flag # None /\ 4 * scratch <= job.flag + 2
                      \/ job.flag = None /\ EnvOk(job.env) /\ scratch <= job.env
                      \/ job.flag = None /\ ~EnvOk(job.env) /\ scratch <= HardMax
    BY DEF CeilingKept
  <2>1. scratch \in Nat /\ {coming, ceiling} \subseteq Nat
    BY DEF Inv, TypeOK
  <2>2. job.flag # None => job.flag \in Int
    BY DEF Inv, TypeOK
  <2>3. EnvOk(job.env) => job.env \in Nat
    BY DEF Inv, TypeOK, EnvOk
  <2>4. scratch <= Resolved(job.flag, job.env)
    BY <2>1 DEF Inv, LimitInv
  <2>5. CASE job.flag # None
    BY <2>1, <2>2, <2>4, <2>5 DEF Resolved, Rounded
  <2>6. CASE job.flag = None
    BY <2>1, <2>3, <2>4, <2>6 DEF Resolved
  <2> QED
    BY <2>5, <2>6
<1> QED
  BY <1>1, InvHolds, PTL

\* cmd_build leaves an extract behind only when it is killed or its download
\* breaks off.
THEOREM ScratchAlwaysRemoved == Spec => []ScratchRemoved
<1>1. Inv => ScratchRemoved
  BY DEF Inv
<1> QED
  BY <1>1, InvHolds, PTL
=============================================================================
