----------------------------- MODULE ConfigStore -----------------------------
(***************************************************************************)
(* The configuration from the file to the running process and back.  Main  *)
(* loads the file, applies the overrides of the command line and saves     *)
(* them; a PUT of the admin UI builds a configuration from the running     *)
(* one, checks it, saves it through a temporary file and a rename, and     *)
(* swaps it in.  Requests are served by several threads: a step of one may *)
(* come between any two of another.  The process dies at any point.        *)
(*                                                                         *)
(* A file is an inode with its content.  A writer holds the inode that it  *)
(* opened, whatever name the inode has by then.                            *)
(***************************************************************************)
EXTENDS ConfigCheck

CONSTANTS
    Request,      \* the PUT requests that can be under way together
    Body, Whole,  \* what a PUT may carry for each section, or altogether
    FirstFile,    \* what may be in the file at first
    Hosts,        \* --real-shelly-host, an option
    SupervisorToken, \* SUPERVISOR_TOKEN, "" where it is not set
    SoC,          \* charges at which the bounds are looked at
    MaxPuts, MaxFaults,
    None, Empty, Mixed

Main    == "main"
Writer  == Request \cup {Main}
Inode   == 0..Cardinality(Writer)
Section == DOMAIN Body

ASSUME StoreConstantsOK ==
    /\ IsFiniteSet(Request) /\ Main \notin Request
    /\ {MaxPuts, MaxFaults} \subseteq Nat /\ None \notin Nat
    /\ SoC \subseteq Percent
    /\ FirstFile \subseteq Config /\ Hosts \subseteq STRING
    /\ {SupervisorToken, ""} \subseteq STRING
    /\ SupervisorToken # "" => \A cfg \in FirstFile : cfg.home_assistant.token # SupervisorToken
    /\ {None, Empty, Mixed} \cap Config = {}

VARIABLES
    running,    \* the configuration the tasks read, None while there is no process
    boot,       \* the one AppState was built from
    active,     \* the one the active flags were last computed from
    content,    \* of each inode
    conf, tmp,  \* the inodes with the two names
    job,        \* what each writer is doing
    overlapped, \* have two requests overlapped?
    puts, faults

memory == <<running, boot, active>>
files  == <<content, conf, tmp>>
vars   == <<memory, files, job, overlapped, puts, faults>>

Idle == [pc |-> "idle", new |-> None, fd |-> None]

Init ==
    /\ running = None /\ boot = None /\ active = None
    /\ \E cfg \in FirstFile : content = [i \in Inode |-> IF i = 0 THEN cfg ELSE Empty]
    /\ conf = 0 /\ tmp = None
    /\ job = [w \in Writer |-> Idle]
    /\ overlapped = FALSE /\ puts = 0 /\ faults = 0

-----------------------------------------------------------------------------
(***************************************************************************)
(* The token of the supervisor is in memory only.                          *)
(***************************************************************************)
WithToken(cfg) ==
    IF cfg.home_assistant.token = ""
    THEN [cfg EXCEPT !.home_assistant.token = SupervisorToken] ELSE cfg

\* Mutant: the configuration is saved as it runs.
ForDisk_AsItRuns(cfg) == cfg

ForDisk(cfg) ==
    IF cfg.home_assistant.token = SupervisorToken
    THEN [cfg EXCEPT !.home_assistant.token = ""] ELSE cfg

-----------------------------------------------------------------------------
(***************************************************************************)
(* Saving: create or truncate the temporary file, write it, rename it.     *)
(***************************************************************************)
Open(jobs) == {jobs[w].fd : w \in Writer} \ {None}
Free       == Inode \ (Open(job) \cup {conf, tmp})

\* An inode without a name that nobody has open is gone.
Kept(contents, names, jobs) ==
    [i \in Inode |-> IF i \in names \cup Open(jobs) THEN contents[i] ELSE Empty]

\* Mutant: the file itself is written, not a temporary one.
Create_InPlace(w) ==
    /\ job[w].pc = "create"
    /\ content' = [content EXCEPT ![conf] = Empty]
    /\ job' = [job EXCEPT ![w] = [@ EXCEPT !.pc = "write", !.fd = conf]]
    /\ UNCHANGED <<memory, conf, tmp, overlapped, puts, faults>>

Create(w) ==
    /\ job[w].pc = "create"
    /\ LET i == IF tmp = None THEN CHOOSE i \in Free : TRUE ELSE tmp
       IN  /\ content' = [content EXCEPT ![i] = Empty]
           /\ tmp' = i
           /\ job' = [job EXCEPT ![w] = [@ EXCEPT !.pc = "write", !.fd = i]]
    /\ UNCHANGED <<memory, conf, overlapped, puts, faults>>

\* What another writer has left in the same file may stick out at the end.
Write(w) ==
    /\ job[w].pc = "write"
    /\ job' = [job EXCEPT ![w] = [@ EXCEPT !.pc = "rename", !.fd = None]]
    /\ LET new == ForDisk(job[w].new)
           old == content[job[w].fd]
       IN  \E c \in {new} \cup (IF old \in {Empty, new} THEN {} ELSE {Mixed}) :
               content' = Kept([content EXCEPT ![job[w].fd] = c], {conf, tmp}, job')
    /\ UNCHANGED <<memory, conf, tmp, overlapped, puts, faults>>

AfterSave(w) == IF w = Main THEN "serve" ELSE "refresh"

\* Mutant: a request whose file could not be saved is swapped in all the same.
Unsaved_GoesOn(w) == [job[w] EXCEPT !.pc = AfterSave(w), !.fd = None]

\* Mutant: main does not close the file.
Unsaved_KeepsOpen(w) == IF w = Main THEN [job[w] EXCEPT !.pc = "serve"] ELSE Idle

\* Main goes on where it could not save; a request is answered 500.
Unsaved(w) == IF w = Main THEN [job[w] EXCEPT !.pc = "serve", !.fd = None] ELSE Idle

Rename(w) ==
    /\ job[w].pc = "rename" /\ tmp # None
    /\ conf' = tmp /\ tmp' = None
    /\ content' = Kept(content, {tmp}, job)
    /\ job' = [job EXCEPT ![w].pc = AfterSave(w)]
    /\ UNCHANGED <<memory, overlapped, puts, faults>>

\* There is nothing to rename: another writer has renamed or removed it.
RenameNothing(w) ==
    /\ job[w].pc = "rename" /\ tmp = None
    /\ job' = [job EXCEPT ![w] = Unsaved(w)]
    /\ UNCHANGED <<memory, files, overlapped, puts, faults>>

\* The file system refuses, at any step; part of the file may have been written.
SaveFails(w) ==
    /\ faults < MaxFaults /\ faults' = faults + 1
    /\ job' = [job EXCEPT ![w] = Unsaved(w)]
    /\ \/ job[w].pc = "create" /\ UNCHANGED files
       \/ /\ job[w].pc = "write"
          /\ \E c \in {content[job[w].fd], Mixed} :
                 content' = Kept([content EXCEPT ![job[w].fd] = c], {conf, tmp}, job')
          /\ UNCHANGED <<conf, tmp>>
       \/ /\ job[w].pc = "rename"
          /\ tmp' = None /\ content' = Kept(content, {conf}, job)
          /\ UNCHANGED conf
    /\ UNCHANGED <<memory, overlapped, puts>>

-----------------------------------------------------------------------------
(***************************************************************************)
(* A PUT of the admin UI.                                                  *)
(***************************************************************************)
\* The parser and the checks; a file that was cut off or muddled does not parse.
Accepted(c) == c \in Config /\ validate(c)

Overlaps == \E r \in Request : job[r].pc # "idle"

\* The start of apply_new_config.
\* Mutant: a section is checked against what ran at the start.
Receive_SectionOnly(r, new) ==
    /\ running # None /\ job[r].pc = "idle"
    /\ puts < MaxPuts /\ puts' = puts + 1
    /\ IF \E section \in Section : Accepted([boot EXCEPT ![section] = new[section]])
       THEN /\ job' = [job EXCEPT ![r] = [pc |-> "create", fd |-> None, new |-> WithToken(new)]]
            /\ overlapped' = (overlapped \/ Overlaps)
       ELSE UNCHANGED <<job, overlapped>>
    /\ UNCHANGED <<memory, files, faults>>

Receive(r, new) ==
    /\ running # None /\ job[r].pc = "idle"
    /\ puts < MaxPuts /\ puts' = puts + 1
    /\ IF Accepted(new)
       THEN /\ job' = [job EXCEPT ![r] = [pc |-> "create", fd |-> None, new |-> WithToken(new)]]
            /\ overlapped' = (overlapped \/ Overlaps)
       ELSE UNCHANGED <<job, overlapped>>
    /\ UNCHANGED <<memory, files, faults>>

\* api_put_section takes the rest from what runs; api_put_config replaces all.
Submitted ==
    IF running = None THEN {}
    ELSE UNION {{[running EXCEPT ![section] = body] : body \in Body[section]} : section \in Section}
             \cup Whole

\* refresh_activity, and then the swap.
Refresh(r) ==
    /\ job[r].pc = "refresh"
    /\ active' = job[r].new
    /\ job' = [job EXCEPT ![r].pc = "swap"]
    /\ UNCHANGED <<running, boot, files, overlapped, puts, faults>>

Swap(r) ==
    /\ job[r].pc = "swap"
    /\ running' = job[r].new
    /\ job' = [job EXCEPT ![r] = Idle]
    /\ UNCHANGED <<boot, active, files, overlapped, puts, faults>>

-----------------------------------------------------------------------------
(***************************************************************************)
(* The start and the end of the process.                                   *)
(***************************************************************************)
Overridden(cfg) ==
    IF Hosts \subseteq {cfg.real_shelly.host} THEN cfg
    ELSE [cfg EXCEPT !.real_shelly.host = CHOOSE h \in Hosts : TRUE]

Load ==
    /\ running = None /\ job[Main].pc = "idle"
    /\ Accepted(content[conf])
    /\ LET file == content[conf]
       IN  job' = [job EXCEPT ![Main] =
                      [pc  |-> IF Overridden(file) = file THEN "serve" ELSE "create",
                       new |-> WithToken(Overridden(file)), fd |-> None]]
    /\ overlapped' = FALSE
    /\ UNCHANGED <<memory, files, puts, faults>>

Serve ==
    /\ job[Main].pc = "serve"
    /\ running' = job[Main].new /\ boot' = job[Main].new /\ active' = job[Main].new
    /\ job' = [job EXCEPT ![Main] = Idle]
    /\ UNCHANGED <<files, overlapped, puts, faults>>

Crash ==
    /\ running # None \/ job[Main].pc # "idle"
    /\ running' = None /\ boot' = None /\ active' = None
    /\ job' = [w \in Writer |-> Idle]
    /\ content' = Kept(content, {conf, tmp}, job')
    /\ UNCHANGED <<conf, tmp, overlapped, puts, faults>>

Next ==
    \/ \E w \in Writer :
           Create(w) \/ Write(w) \/ Rename(w) \/ RenameNothing(w) \/ SaveFails(w)
    \/ \E r \in Request :
           \/ \E new \in Submitted : Receive(r, new)
           \/ Refresh(r) \/ Swap(r)
    \/ Load \/ Serve \/ Crash

Spec == Init /\ [][Next]_vars

-----------------------------------------------------------------------------
(***************************************************************************)
(* Properties.                                                             *)
(***************************************************************************)
Up       == running # None
Starting == job[Main].pc # "idle"

Job == [pc:  {"idle", "create", "write", "rename", "refresh", "swap", "serve"},
        new: Config \cup {None}, fd: Inode \cup {None}]

TypeOK ==
    /\ {running, boot, active} \subseteq Config \cup {None}
    /\ content \in [Inode -> Config \cup {Empty, Mixed}]
    /\ conf \in Inode /\ tmp \in Inode \cup {None}
    /\ job \in [Writer -> Job]
    /\ \A w \in Writer :
           /\ job[w].pc = "idle" <=> job[w].new = None
           /\ job[w].pc = "write" <=> job[w].fd # None
    /\ overlapped \in BOOLEAN
    /\ puts \in 0..MaxPuts /\ faults \in 0..MaxFaults

\* "Drop SUPERVISOR_TOKEN before writing": the token that a PUT finds in the
\* running configuration, or that main has put there, is in no file, however
\* many requests write at once and wherever the process dies.
SecretNotStored ==
    SupervisorToken # "" =>
        \A i \in Inode : content[i] \notin {Empty, Mixed} =>
            content[i].home_assistant.token # SupervisorToken

\* Wherever the process dies, and whatever the file system refuses, the next
\* process finds a file that it can load; two overlapping requests excepted.
RestartLoads == (Up \/ Starting) /\ ~overlapped => Accepted(content[conf])

\* Once nothing is under way, what runs, what the active flags stand for and
\* what is saved are the same, but for an override that could not be saved.
QuietAgrees ==
    Up /\ ~overlapped /\ (\A w \in Writer : job[w].pc = "idle") =>
        /\ active = running
        /\ ForDisk(running) \in {content[conf], Overridden(content[conf])}

\* The dispatcher clamps to the bounds of a battery, which panics where they
\* are out of order.  Whatever PUTs came since AppState was built, at any
\* charge and with whatever cutoffs the battery reports, the bounds of the
\* frozen battery under the live thresholds are in order, and one battery
\* alone stays within the cap of its circuit.
BoundsFit ==
    Up => \A b \in Items(boot.batteries), soc \in Option(SoC), locked \in BOOLEAN :
          \A full, empty \in Option(SoC) :
              LET bms  == [full |-> full, empty |-> empty]
                  low  == low_bound(b, soc, bms, running.dispatcher, locked)
                  high == high_bound(b, soc, bms, running.dispatcher, locked)
              IN  /\ low <= 0 /\ 0 <= high
                  /\ \E c \in Items(boot.circuits) :
                         c.id = b.circuit /\ -low <= cap_w(c) /\ high <= cap_w(c)

\* "otherwise the taper either shadows the hard gate or never triggers": in a
\* configuration that runs, a taper reduces the power of its direction where
\* it begins, and does not stop it.
NoCutoffs == [full |-> {}, empty |-> {}]

TaperActs ==
    Up => \A b \in Items(running.batteries) :
        /\ \A t \in b.charge_taper_soc_pct :
               LET low == low_bound(b, {t}, NoCutoffs, running.dispatcher, FALSE)
               IN  -b.max_charge_w < low /\ low < 0
        /\ \A t \in b.discharge_taper_soc_pct :
               LET high == high_bound(b, {t}, NoCutoffs, running.dispatcher, FALSE)
               IN  0 < high /\ high < b.max_discharge_w

\* by_unit_id keeps the last battery of a unit: where the virtual Modbus server
\* runs, no battery is shadowed by another one.
UnitsServed ==
    Up /\ boot.virtual_modbus.enabled =>
        Cardinality({effective_virtual_unit_id(boot, i) : i \in DOMAIN boot.batteries})
            = Len(boot.batteries)

\* A process runs what is saved, a change is saved before it runs, and whatever
\* runs has passed the checks (SavedConfig).
Promise == INSTANCE SavedConfig
    WITH saved <- content[conf],
         running <- IF Up THEN ForDisk(running) ELSE None,
         muddled <- overlapped,
         Checked <- Accepted

ImplementsStore == Promise!Spec

-----------------------------------------------------------------------------
(***************************************************************************)
(* The inductive invariant.                                                *)
(***************************************************************************)
\* Whatever runs, or is on its way to run, has passed the checks.
OnlyChecked ==
    /\ Up => Accepted(running) /\ Accepted(boot)
    /\ ~Up => boot = None
    /\ \A w \in Writer : job[w].pc # "idle" => Accepted(job[w].new)

\* Main starts alone, and requests come to a process that serves.
OneProcess ==
    /\ ~Up => \A r \in Request : job[r].pc = "idle"
    /\ Starting => ~Up /\ ~overlapped
    /\ job[Main].pc \notin {"refresh", "swap"}
    /\ \A r \in Request : job[r].pc # "serve"
    /\ conf # tmp

\* Where no two requests have overlapped, one writer at most is busy: the temporary
\* file is its own, and what runs is what is saved until it has renamed it.
Alone ==
    /\ \A v, w \in Writer : job[v].pc # "idle" /\ job[w].pc # "idle" => v = w
    /\ Up \/ Starting => Accepted(content[conf])
    /\ \A w \in Writer :
           /\ job[w].pc = "write" => job[w].fd = tmp /\ content[tmp] = Empty
           /\ job[w].pc = "rename" => tmp # None /\ content[tmp] = ForDisk(job[w].new)
           /\ job[w].pc \in {"refresh", "swap"} => content[conf] = ForDisk(job[w].new)
           /\ job[w].pc = "swap" => active = job[w].new
    /\ Starting => ForDisk(job[Main].new) \in {content[conf], Overridden(content[conf])}
    /\ Up /\ (\A w \in Writer : job[w].pc \notin {"refresh", "swap"}) =>
           ForDisk(running) \in {content[conf], Overridden(content[conf])}
    /\ Up /\ (\A w \in Writer : job[w].pc # "swap") => active = running

\* The types and what the code keeps for every writer, and the rest where no two
\* requests have overlapped.
StoreInv ==
    /\ TypeOK /\ OnlyChecked /\ OneProcess /\ SecretNotStored
    /\ ~overlapped => Alone

=============================================================================
