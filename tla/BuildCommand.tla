---------------------------- MODULE BuildCommand ----------------------------
(***************************************************************************)
(* `roughroute build` (crates/cli/src/main.rs, cmd_build) behind the       *)
(* download gate of crates/cli/src/net.rs, run after run in one directory. *)
(*                                                                         *)
(* The server answers the HEAD and the GET request independently and may   *)
(* stop sending; others write to the same file system; the process may be  *)
(* killed anywhere.                                                        *)
(*                                                                         *)
(* Abstracted data: the bytes of a file are counted and sent one by one,   *)
(* and MaxBytes stands for u64::MAX.  A --max-pbf-gb flag is in quarters   *)
(* of a byte, so that rounding it can be seen.                             *)
(***************************************************************************)
EXTENDS Integers

CONSTANTS
    HardMax,      \* HARD_MAX_PBF_BYTES
    Floor,        \* HEADROOM_FLOOR_BYTES
    MaxBytes,     \* u64::MAX
    Flags,        \* values of --max-pbf-gb, None among them
    Envs,         \* values of ROUGHROUTE_MAX_PBF_BYTES, None and Garbage among them
    Sizes,        \* what a server may announce or send
    Disk,         \* free bytes at first
    Runs,         \* bound: builds started
    Elsewhere,    \* bound: bytes others write
    None, Garbage

ASSUME SizeAssumption ==
    /\ {HardMax, Floor, MaxBytes, Disk, Runs, Elsewhere} \subseteq Nat
    /\ Sizes \subseteq 0..MaxBytes /\ HardMax > 0
    /\ Flags \subseteq Int \cup {None} /\ Envs \subseteq Nat \cup {None, Garbage}
    /\ None \notin Int /\ Garbage \notin Int /\ None # Garbage
    /\ Disk < MaxBytes   \* no disk holds as many bytes as a u64 counts

VARIABLES
    pc,
    job,        \* the command line and environment of this run
    ceiling,
    probed,     \* Content-Length of the HEAD request
    coming,     \* what the GET request will send
    scratch,    \* bytes of this run's downloaded extract; None: no such file
    left,       \* bytes of the extracts earlier runs left behind
    out,        \* the graph: absent, old (of an earlier run), torn or new
    out_size,
    graph_size, \* of the graph being written
    free,
    foreseen,   \* history: nothing happened that the gate could not know of
    failed,     \* history: the download of this run failed half way
    exit,       \* the status the last run ended with, 137 when killed
    runs, elsewhere

vars == <<pc, job, ceiling, probed, coming, scratch, left, out, out_size, graph_size,
          free, foreseen, failed, exit, runs, elsewhere>>

disk == <<scratch, left, out, out_size, free>>
plan == <<job, ceiling, probed, coming, graph_size>>
past == <<foreseen, failed, runs, elsewhere>>

NoJob == [url |-> FALSE, flag |-> None, env |-> None]

Init ==
    /\ pc = "idle" /\ job = NoJob /\ ceiling = 0 /\ probed = None /\ coming = 0
    /\ scratch = None /\ left = 0
    /\ out = "absent" /\ out_size = 0 /\ graph_size = 0
    /\ free = Disk
    /\ foreseen = TRUE /\ failed = FALSE /\ exit = None
    /\ runs = 0 /\ elsewhere = 0

Bytes(size) == IF size = None THEN 0 ELSE size

----------------------------------------------------------------------------
(* The command line, and the ceiling it sets *)

\* parse_max_pbf_gb: clap refuses the command line.
FlagOk(flag) == flag = None \/ flag > 0

\* gb_to_bytes
Rounded(flag) == (flag + 2) \div 4

\* parse_max_pbf_override
EnvOk(env) == env \notin {None, Garbage} /\ env > 0

\* Faulty: the environment comes first.
BugEnvFirst(flag, env) ==
    IF EnvOk(env) THEN env ELSE IF flag # None THEN Rounded(flag) ELSE HardMax

\* resolve_max_pbf_bytes
Resolved(flag, env) ==
    IF flag # None THEN Rounded(flag) ELSE IF EnvOk(env) THEN env ELSE HardMax

\* A new process has a new id, so the extract it may download has another name.
Start ==
    /\ pc = "idle" /\ runs < Runs
    /\ \E url \in BOOLEAN, flag \in Flags, env \in Envs :
        /\ job' = [url |-> url, flag |-> flag, env |-> env]
        /\ ceiling' = IF FlagOk(flag) THEN Resolved(flag, env) ELSE 0
        /\ IF FlagOk(flag)
           THEN pc' = (IF url THEN "probe" ELSE "build") /\ exit' = None
           ELSE pc' = "idle" /\ exit' = 2
    /\ probed' = None /\ coming' = 0 /\ graph_size' = 0
    /\ left' = left + Bytes(scratch) /\ scratch' = None
    /\ out' = IF out = "new" THEN "old" ELSE out
    /\ foreseen' = TRUE /\ failed' = FALSE
    /\ runs' = runs + 1
    /\ UNCHANGED <<out_size, free, elsewhere>>

Exit(status) == pc' = "idle" /\ exit' = status

----------------------------------------------------------------------------
(* gate_download *)

\* probe_content_length: no answer and no length are the same.
Probe ==
    /\ pc = "probe"
    /\ \E size \in Sizes \cup {None} : probed' = size
    /\ pc' = "gate"
    /\ UNCHANGED <<job, ceiling, coming, graph_size, disk, past, exit>>

TooLarge == probed # None /\ probed > ceiling

\* Faulty: the product wraps.
BugWraps(size) == (2 * size + Floor) % (MaxBytes + 1)

\* estimated_need_bytes
Need(size) == IF 2 * size + Floor > MaxBytes THEN MaxBytes ELSE 2 * size + Floor

\* df may fail, or not be there.
NoRoom == TRUE

GateRefuses ==
    /\ pc = "gate"
    /\ probed = None \/ TooLarge \/ NoRoom
    /\ Exit(1)
    /\ UNCHANGED <<plan, disk, past>>

GatePasses ==
    /\ pc = "gate"
    /\ probed # None /\ ~TooLarge /\ free >= Need(probed)
    /\ pc' = "get"
    /\ UNCHANGED <<plan, disk, past, exit>>

----------------------------------------------------------------------------
(* download *)

\* Refused by the server, or the file cannot be created: there is no file.
GetFails ==
    /\ pc = "get" /\ Exit(1)
    /\ UNCHANGED <<plan, disk, past>>

Get ==
    /\ pc = "get"
    /\ \E size \in Sizes :
        /\ coming' = size
        /\ foreseen' = (foreseen /\ size = probed)
    /\ scratch' = 0
    /\ pc' = "copy"
    /\ UNCHANGED <<job, ceiling, probed, graph_size, left, out, out_size, free,
                   failed, exit, runs, elsewhere>>

\* The server goes on sending, as long as it wants to.
Copy ==
    /\ pc = "copy" /\ scratch < coming /\ free > 0
    /\ scratch' = scratch + 1 /\ free' = free - 1
    /\ UNCHANGED <<pc, plan, left, out, out_size, past, exit>>

\* agent: 120 s without a byte, or two hours in all.
TimedOut == scratch < coming

\* Connection lost, timed out, or no space left: cmd_build returns at once.
CopyFails ==
    /\ pc = "copy"
    /\ TimedOut \/ (scratch < coming /\ free = 0)
    /\ failed' = TRUE
    /\ Exit(1)
    /\ UNCHANGED <<plan, disk, foreseen, runs, elsewhere>>

Copied ==
    /\ pc = "copy" /\ scratch = coming
    /\ pc' = "build"
    /\ UNCHANGED <<plan, disk, past, exit>>

----------------------------------------------------------------------------
(* build_from_pbf, and what follows whether it succeeded or not *)

\* Faulty: a failed build returns before the extract is removed.
BugAfterBuild(status) ==
    IF job.url /\ status = 0 THEN pc' = "remove" /\ exit' = 0 ELSE Exit(status)

AfterBuild(status) ==
    IF job.url THEN pc' = "remove" /\ exit' = status ELSE Exit(status)

\* The extract is unreadable, or has no roads, or the graph is refused.
BuildFails ==
    /\ pc = "build" /\ AfterBuild(1)
    /\ UNCHANGED <<plan, disk, past>>

\* The graph is no larger than its extract; fs::write starts by emptying
\* the file.
Build ==
    /\ pc = "build"
    /\ \E extract \in (IF job.url THEN {scratch} ELSE Sizes) :
        \E size \in 1..extract : graph_size' = size
    /\ out' = "torn" /\ out_size' = 0 /\ free' = free + out_size
    /\ pc' = "write"
    /\ UNCHANGED <<job, ceiling, probed, coming, scratch, left, past, exit>>

Write ==
    /\ pc = "write" /\ out_size < graph_size /\ free > 0
    /\ out_size' = out_size + 1 /\ free' = free - 1
    /\ UNCHANGED <<pc, plan, scratch, left, out, past, exit>>

WriteFails ==
    /\ pc = "write" /\ out_size < graph_size /\ free = 0
    /\ AfterBuild(1)
    /\ UNCHANGED <<plan, disk, past>>

Written ==
    /\ pc = "write" /\ out_size = graph_size
    /\ out' = "new"
    /\ AfterBuild(0)
    /\ UNCHANGED <<plan, scratch, left, out_size, free, past>>

\* A failed removal is ignored, and not modelled: it is the system's.
Remove ==
    /\ pc = "remove"
    /\ free' = free + scratch /\ scratch' = None
    /\ pc' = "idle"
    /\ UNCHANGED <<plan, left, out, out_size, past, exit>>

----------------------------------------------------------------------------
(* Kills and other programs *)

Killed ==
    /\ pc # "idle"
    /\ Exit(137)
    /\ UNCHANGED <<plan, disk, past>>

OthersWrite ==
    /\ elsewhere < Elsewhere /\ free > 0
    /\ elsewhere' = elsewhere + 1 /\ free' = free - 1 /\ foreseen' = FALSE
    /\ UNCHANGED <<pc, plan, scratch, left, out, out_size, failed, exit, runs>>

Working ==
    \/ Probe \/ GateRefuses \/ GatePasses
    \/ GetFails \/ Get \/ CopyFails \/ Copied
    \/ BuildFails \/ Build \/ Write \/ WriteFails \/ Written
    \/ Remove

\* No more builds.
Rest == pc = "idle" /\ runs = Runs /\ UNCHANGED vars

Next ==
    \/ Start
    \/ Working
    \/ Copy
    \/ Killed
    \/ OthersWrite
    \/ Rest

Spec == Init /\ [][Next]_vars

----------------------------------------------------------------------------
(* Properties *)

\* Every variable has its type; the disk neither gains nor loses a byte.
TypeOK ==
    /\ pc \in {"idle", "probe", "gate", "get", "copy", "build", "write", "remove"}
    /\ job \in [url : BOOLEAN, flag : Flags \cup {None}, env : Envs \cup {None}]
    /\ {ceiling, coming, left, out_size, graph_size, free, runs, elsewhere} \subseteq Nat
    /\ probed \in Sizes \cup {None}
    /\ scratch \in Nat \cup {None}
    /\ out \in {"absent", "old", "torn", "new"}
    /\ foreseen \in BOOLEAN /\ failed \in BOOLEAN
    /\ exit \in {0, 1, 2, 137, None}
    /\ free + Bytes(scratch) + left + out_size + elsewhere = Disk

\* If the server sends what it announced and nobody else writes, the disk
\* never comes nearer to its end than the floor: neither while the extract
\* arrives nor while the graph is written beside it.
HeadroomKept ==
    job.url /\ foreseen /\ pc \in {"copy", "build", "write", "remove"} => free >= Floor

\* No extract grows beyond what its user allowed, if the server sends what it
\* announced: the flag decides if there is one, then a usable environment
\* variable, then the built-in limit.
CeilingKept ==
    foreseen /\ scratch # None =>
        \/ job.flag # None /\ 4 * scratch <= job.flag + 2
        \/ job.flag = None /\ EnvOk(job.env) /\ scratch <= job.env
        \/ job.flag = None /\ ~EnvOk(job.env) /\ scratch <= HardMax

\* A run that ends by itself leaves no extract behind, whether the graph was
\* built or not, unless its own download failed half way.
ScratchRemoved == pc = "idle" /\ exit \in {0, 1} /\ ~failed => scratch = None

\* The comment on cmd_build: the extract is "deleted on every exit path".
DeletedOnEveryExit == pc = "idle" /\ exit \in {0, 1} => scratch = None
=============================================================================
