----------------------------- MODULE ConfigProofs -----------------------------
(***************************************************************************)
(* For any number of requests, any configurations and any failures: the    *)
(* store keeps its promise (SavedConfig), the token reaches no file, a     *)
(* restart finds a file that it can load, and what runs keeps the bounds   *)
(* of the batteries in order.                                              *)
(***************************************************************************)
EXTENDS ConfigStore, ConfigCheckProofs, FiniteSetTheorems

-----------------------------------------------------------------------------
(***************************************************************************)
(* The token, the override and the checks.                                 *)
(***************************************************************************)
LEMMA Constants ==
    /\ IsFiniteSet(Request) /\ Main \notin Request /\ Main \in Writer
    /\ Request \subseteq Writer /\ Writer = Request \cup {Main}
    /\ MaxPuts \in Nat /\ MaxFaults \in Nat /\ None \notin Nat
    /\ FirstFile \subseteq Config /\ Hosts \subseteq STRING
    /\ SupervisorToken \in STRING /\ "" \in STRING
    /\ None \notin Config /\ Empty \notin Config /\ Mixed \notin Config
BY StoreConstantsOK DEF Writer

LEMMA Files ==
    /\ IsFiniteSet(Writer) /\ Cardinality(Writer) \in Nat /\ Cardinality(Writer) >= 1
    /\ IsFiniteSet(Inode) /\ Cardinality(Inode) = Cardinality(Writer) + 1
    /\ None \notin Inode /\ 0 \in Inode
<1>1. IsFiniteSet(Writer)
  BY Constants, FS_AddElement
<1>2. Cardinality(Writer) \in Nat /\ Cardinality(Writer) # 0
  BY <1>1, Constants, FS_CardinalityType, FS_EmptySet
<1>3. IsFiniteSet(Inode) /\ Cardinality(Inode) = Cardinality(Writer) + 1
  BY <1>2, FS_Interval DEF Inode
<1>4. Inode \subseteq Nat /\ 0 \in Inode
  BY <1>2 DEF Inode
<1>5. None \notin Inode
  BY <1>4, Constants
<1>6. Cardinality(Writer) >= 1
  BY <1>2
<1>7. QED
  BY <1>1, <1>2, <1>3, <1>4, <1>5, <1>6

\* Another token, or another host, leaves a configuration one, and the checks do
\* not read them.
LEMMA OtherToken ==
    ASSUME NEW cfg \in Config, NEW t \in STRING
    PROVE  LET new == [cfg EXCEPT !.home_assistant.token = t]
           IN  /\ new \in Config /\ new.home_assistant.token = t
               /\ validate(new) <=> validate(cfg)
               /\ cfg.home_assistant.token = t => new = cfg
<1> DEFINE new == [cfg EXCEPT !.home_assistant.token = t]
<1>1. new \in Config /\ new.home_assistant.token = t
  BY DEF Config
<1>2. /\ new.circuits = cfg.circuits /\ new.batteries = cfg.batteries
      /\ new.dispatcher = cfg.dispatcher /\ new.location = cfg.location
      /\ new.virtual_modbus = cfg.virtual_modbus /\ new.real_shelly = cfg.real_shelly
  BY DEF Config
<1>3. validate(new) <=> validate(cfg)
  BY <1>2, ValidateReads
<1>4. cfg.home_assistant.token = t => new = cfg
  BY DEF Config
<1>5. QED
  BY <1>1, <1>3, <1>4

LEMMA OtherHost ==
    ASSUME NEW cfg \in Config, NEW h \in STRING
    PROVE  LET new == [cfg EXCEPT !.real_shelly.host = h]
           IN  /\ new \in Config /\ new.home_assistant = cfg.home_assistant
               /\ validate(new) <=> validate(cfg)
<1> DEFINE new == [cfg EXCEPT !.real_shelly.host = h]
<1>1. new \in Config /\ new.home_assistant = cfg.home_assistant
  BY DEF Config
<1>2. /\ new.circuits = cfg.circuits /\ new.batteries = cfg.batteries
      /\ new.dispatcher = cfg.dispatcher /\ new.location = cfg.location
      /\ new.virtual_modbus = cfg.virtual_modbus
      /\ new.real_shelly.poll_interval_ms = cfg.real_shelly.poll_interval_ms
  BY DEF Config
<1>3. validate(new) <=> validate(cfg)
  BY <1>2, ValidateReads
<1>4. QED
  BY <1>1, <1>3

LEMMA TokenAccepted ==
    ASSUME NEW cfg, Accepted(cfg)
    PROVE  Accepted(WithToken(cfg)) /\ Accepted(ForDisk(cfg))
<1>1. cfg \in Config
  BY DEF Accepted
<1>2. QED
  BY <1>1, OtherToken, Constants DEF Accepted, WithToken, ForDisk

LEMMA OverriddenAccepted ==
    ASSUME NEW cfg, Accepted(cfg)
    PROVE  Accepted(Overridden(cfg)) /\ Overridden(cfg).home_assistant = cfg.home_assistant
<1>1. cfg \in Config
  BY DEF Accepted
<1>2. Hosts # {} => (CHOOSE h \in Hosts : TRUE) \in STRING
  BY Constants
<1>3. CASE Hosts \subseteq {cfg.real_shelly.host}
  BY <1>3 DEF Overridden
<1>4. CASE ~(Hosts \subseteq {cfg.real_shelly.host})
  BY <1>1, <1>2, <1>4, OtherHost DEF Overridden, Accepted
<1>5. QED
  BY <1>3, <1>4

\* What is written holds no token of the supervisor, and what held none comes back.
LEMMA NoTokenOnDisk ==
    ASSUME NEW cfg \in Config, SupervisorToken # ""
    PROVE  ForDisk(cfg).home_assistant.token # SupervisorToken
BY OtherToken, Constants DEF ForDisk

LEMMA TokenAndBack ==
    ASSUME NEW cfg \in Config,
           SupervisorToken # "" => cfg.home_assistant.token # SupervisorToken
    PROVE  ForDisk(WithToken(cfg)) = cfg
<1>1. CASE cfg.home_assistant.token = ""
  <2> DEFINE new == [cfg EXCEPT !.home_assistant.token = SupervisorToken]
  <2>1. WithToken(cfg) = new /\ new.home_assistant.token = SupervisorToken
    BY <1>1, OtherToken, Constants DEF WithToken
  <2>2. ForDisk(new) = [new EXCEPT !.home_assistant.token = ""]
    BY <2>1 DEF ForDisk
  <2>3. [new EXCEPT !.home_assistant.token = ""] = cfg
    BY <1>1 DEF Config
  <2>4. QED
    BY <2>1, <2>2, <2>3
<1>2. CASE cfg.home_assistant.token # ""
  BY <1>2, OtherToken DEF WithToken, ForDisk
<1>3. QED
  BY <1>1, <1>2

-----------------------------------------------------------------------------
(***************************************************************************)
(* A writer that creates the temporary file finds a free inode for it.     *)
(***************************************************************************)
LEMMA FreeExists ==
    ASSUME TypeOK, NEW w \in Writer, job[w].pc = "create", tmp = None
    PROVE  Free # {}
<1> DEFINE Others == Writer \ {w}
           fds    == [v \in Others |-> job[v].fd]
           Fds    == {job[v].fd : v \in Others}
<1>1. job[w].fd = None
  BY DEF TypeOK
<1>2. IsFiniteSet(Others) /\ Cardinality(Others) = Cardinality(Writer) - 1
  BY Files, FS_RemoveElement
<1>3. IsFiniteSet(Fds) /\ Cardinality(Fds) <= Cardinality(Writer) - 1
  <2>1. fds \in Surjection(Others, Fds)
    BY DEF Surjection
  <2>2. QED
    BY <1>2, <2>1, FS_Surjection
<1>4. IsFiniteSet(Fds \cup {conf}) /\ Cardinality(Fds \cup {conf}) <= Cardinality(Writer)
  <2>1. Cardinality(Fds) \in Nat
    BY <1>3, FS_CardinalityType
  <2>2. /\ IsFiniteSet(Fds \cup {conf})
        /\ Cardinality(Fds \cup {conf}) \in {Cardinality(Fds), Cardinality(Fds) + 1}
    BY <1>3, FS_AddElement
  <2>3. QED
    BY <1>3, <2>1, <2>2, Files
<1>5. SUFFICES ASSUME Free = {} PROVE FALSE
  OBVIOUS
<1>6. Inode \subseteq Fds \cup {conf}
  BY <1>1, <1>5, Files DEF Free, Open
<1>7. Cardinality(Inode) <= Cardinality(Fds \cup {conf})
  BY <1>4, <1>6, FS_Subset
<1>8. QED
  BY <1>3, <1>4, <1>7, Files, FS_CardinalityType

-----------------------------------------------------------------------------
(***************************************************************************)
(* The inductive invariant, StoreInv.                                      *)
(***************************************************************************)
LEMMA StoreInit == Init => StoreInv
<1> SUFFICES ASSUME Init PROVE StoreInv
  OBVIOUS
<1>1. PICK cfg \in FirstFile : content = [i \in Inode |-> IF i = 0 THEN cfg ELSE Empty]
  BY DEF Init
<1>2. cfg \in Config /\ (SupervisorToken # "" => cfg.home_assistant.token # SupervisorToken)
  BY StoreConstantsOK
<1>3. content \in [Inode -> Config \cup {Empty, Mixed}] /\ conf \in Inode /\ conf # tmp
  BY <1>1, <1>2, Files DEF Init
<1>4. running = None /\ boot = None /\ active = None /\ tmp = None /\ overlapped = FALSE
  BY DEF Init
<1>5. /\ job = [w \in Writer |-> Idle]
      /\ \A w \in Writer : job[w].pc = "idle" /\ job[w].new = None /\ job[w].fd = None
  BY DEF Init, Idle
<1>6. puts \in 0..MaxPuts /\ faults \in 0..MaxFaults
  <2>1. puts = 0 /\ faults = 0
    BY DEF Init
  <2>2. MaxPuts \in Nat /\ MaxFaults \in Nat
    BY Constants
  <2>3. QED
    BY <2>1, <2>2
<1>7. TypeOK
  BY <1>3, <1>4, <1>5, <1>6 DEF TypeOK, Job, Idle
<1>8. SecretNotStored
  BY <1>1, <1>2 DEF SecretNotStored
<1>9. OnlyChecked /\ OneProcess /\ Alone
  BY <1>3, <1>4, <1>5, Constants DEF OnlyChecked, OneProcess, Alone, Up, Starting
<1>10. QED
  BY <1>7, <1>8, <1>9 DEF StoreInv

-----------------------------------------------------------------------------
(***************************************************************************)
(* What all steps have in common.                                          *)
(***************************************************************************)
\* One writer goes on.
LEMMA JobChanges ==
    ASSUME TypeOK, NEW w \in Writer, NEW j \in Job, job' = [job EXCEPT ![w] = j],
           j.pc = "idle" <=> j.new = None, j.pc = "write" <=> j.fd # None
    PROVE  /\ job' \in [Writer -> Job] /\ job'[w] = j
           /\ \A v \in Writer : v # w => job'[v] = job[v]
           /\ \A v \in Writer : /\ job'[v].pc = "idle" <=> job'[v].new = None
                                /\ job'[v].pc = "write" <=> job'[v].fd # None
<1>1. job' \in [Writer -> Job] /\ job'[w] = j /\ \A v \in Writer : v # w => job'[v] = job[v]
  BY DEF TypeOK
<1>2. ASSUME NEW v \in Writer
      PROVE  /\ job'[v].pc = "idle" <=> job'[v].new = None
             /\ job'[v].pc = "write" <=> job'[v].fd # None
  BY <1>1 DEF TypeOK
<1>3. QED
  BY <1>1, <1>2

\* An inode that keeps its name keeps its content.
LEMMA KeptContent ==
    ASSUME NEW contents \in [Inode -> Config \cup {Empty, Mixed}], NEW names, NEW jobs
    PROVE  /\ Kept(contents, names, jobs) \in [Inode -> Config \cup {Empty, Mixed}]
           /\ \A i \in Inode : Kept(contents, names, jobs)[i] \in {contents[i], Empty}
           /\ \A i \in Inode \cap names : Kept(contents, names, jobs)[i] = contents[i]
BY DEF Kept

\* Nothing but what was there, or was made for the disk, is in a file.
LEMMA SecretKept ==
    ASSUME SecretNotStored,
           \A i \in Inode : content'[i] \in {content[i], Empty, Mixed}
                                \cup {ForDisk(cfg) : cfg \in Config}
    PROVE  SecretNotStored'
BY NoTokenOnDisk DEF SecretNotStored

\* A job that is under way carries a configuration.
LEMMA JobCarries ==
    ASSUME TypeOK, OnlyChecked, NEW w \in Writer, job[w].pc # "idle"
    PROVE  /\ job[w].new \in Config /\ Accepted(job[w].new)
           /\ ForDisk(job[w].new) \in Config /\ Accepted(ForDisk(job[w].new))
<1>1. Accepted(job[w].new)
  BY DEF OnlyChecked
<1>2. QED
  BY <1>1, TokenAccepted DEF Accepted

\* A writer that was busy, and does not become what only the others can be.
LEMMA ProcessKept ==
    ASSUME OneProcess, NEW w \in Writer, job[w].pc # "idle",
           \A v \in Writer : v # w => job'[v] = job[v],
           UNCHANGED <<running, overlapped>>, conf' # tmp',
           w = Main => job'[w].pc \notin {"refresh", "swap"},
           w # Main => job'[w].pc # "serve"
    PROVE  OneProcess'
<1>1. ~Up' => \A r \in Request : job'[r].pc = "idle"
  BY Constants DEF OneProcess, Up
<1>2. Starting' => ~Up' /\ ~overlapped'
  BY Constants DEF OneProcess, Up, Starting
<1>3. job'[Main].pc \notin {"refresh", "swap"} /\ \A r \in Request : job'[r].pc # "serve"
  BY Constants DEF OneProcess
<1>4. QED
  BY <1>1, <1>2, <1>3 DEF OneProcess

\* Where all others are idle, it is enough to look at one writer.
LEMMA AloneBy ==
    ASSUME NEW w \in Writer, \A v \in Writer : v # w => job'[v].pc = "idle",
           Up' \/ Starting' => Accepted(content'[conf']),
           job'[w].pc = "write" => job'[w].fd = tmp' /\ content'[tmp'] = Empty,
           job'[w].pc = "rename" => tmp' # None /\ content'[tmp'] = ForDisk(job'[w].new),
           job'[w].pc \in {"refresh", "swap"} => content'[conf'] = ForDisk(job'[w].new),
           job'[w].pc = "swap" => active' = job'[w].new,
           w = Main /\ Starting' =>
               ForDisk(job'[w].new) \in {content'[conf'], Overridden(content'[conf'])},
           Up' /\ job'[w].pc \notin {"refresh", "swap"} =>
               ForDisk(running') \in {content'[conf'], Overridden(content'[conf'])},
           Up' /\ job'[w].pc # "swap" => active' = running'
    PROVE  Alone'
<1>1. \A v \in Writer : v # w => job'[v].pc = "idle"
  OBVIOUS
<1>2. \A u, v \in Writer : job'[u].pc # "idle" /\ job'[v].pc # "idle" => u = v
  BY <1>1
<1>3. \A v \in Writer :
          /\ job'[v].pc = "write" => job'[v].fd = tmp' /\ content'[tmp'] = Empty
          /\ job'[v].pc = "rename" => tmp' # None /\ content'[tmp'] = ForDisk(job'[v].new)
          /\ job'[v].pc \in {"refresh", "swap"} => content'[conf'] = ForDisk(job'[v].new)
          /\ job'[v].pc = "swap" => active' = job'[v].new
  BY <1>1
<1>4. Starting' => ForDisk(job'[Main].new) \in {content'[conf'], Overridden(content'[conf'])}
  BY <1>1, Constants DEF Starting
<1>5. Up' /\ (\A v \in Writer : job'[v].pc \notin {"refresh", "swap"}) =>
          ForDisk(running') \in {content'[conf'], Overridden(content'[conf'])}
  OBVIOUS
<1>6. Up' /\ (\A v \in Writer : job'[v].pc # "swap") => active' = running'
  OBVIOUS
<1>7. Overridden(content[conf])' = Overridden(content'[conf'])
  BY DEF Overridden
<1>8. QED
  BY <1>2, <1>3, <1>4, <1>5, <1>6, <1>7 DEF Alone, ForDisk, Accepted

\* Where no requests have overlapped, they are.
LEMMA AloneKept ==
    ASSUME Alone, NEW w \in Writer, job[w].pc # "idle",
           \A v \in Writer : v # w => job'[v] = job[v],
           Up' \/ Starting' => Accepted(content'[conf']),
           job'[w].pc = "write" => job'[w].fd = tmp' /\ content'[tmp'] = Empty,
           job'[w].pc = "rename" => tmp' # None /\ content'[tmp'] = ForDisk(job'[w].new),
           job'[w].pc \in {"refresh", "swap"} => content'[conf'] = ForDisk(job'[w].new),
           job'[w].pc = "swap" => active' = job'[w].new,
           w = Main /\ Starting' =>
               ForDisk(job'[w].new) \in {content'[conf'], Overridden(content'[conf'])},
           Up' /\ job'[w].pc \notin {"refresh", "swap"} =>
               ForDisk(running') \in {content'[conf'], Overridden(content'[conf'])},
           Up' /\ job'[w].pc # "swap" => active' = running'
    PROVE  Alone'
<1>1. \A v \in Writer : v # w => job'[v].pc = "idle"
  BY DEF Alone
<1>2. QED
  BY <1>1, AloneBy

-----------------------------------------------------------------------------
(***************************************************************************)
(* Saving.                                                                 *)
(***************************************************************************)
LEMMA CreateKeeps ==
    ASSUME StoreInv, NEW w \in Writer, Create(w)
    PROVE  StoreInv' /\ content'[conf'] = content[conf]
<1> DEFINE i == tmp'
           j == [job[w] EXCEPT !.pc = "write", !.fd = i]
<1>1. job[w].pc = "create" /\ UNCHANGED <<memory, conf, overlapped, puts, faults>>
  BY DEF Create
<1>2. tmp # None => i = tmp
  BY <1>1 DEF Create
<1>3. tmp = None => i \in Free
  BY <1>1, FreeExists DEF Create, StoreInv
<1>4. i \in Inode /\ i # conf /\ i # None
  BY <1>2, <1>3, Files DEF StoreInv, TypeOK, OneProcess, Free
<1>5. content' = [content EXCEPT ![i] = Empty] /\ job' = [job EXCEPT ![w] = j]
  BY <1>1 DEF Create
<1>6. /\ j \in Job /\ j.pc = "write" /\ j.new = job[w].new /\ j.fd = i
      /\ j.new # None /\ j.fd # None
  BY <1>1, <1>4 DEF Job, StoreInv, TypeOK
<1> HIDE DEF j
<1>7. /\ job' \in [Writer -> Job] /\ job'[w] = j
      /\ \A v \in Writer : v # w => job'[v] = job[v]
      /\ \A v \in Writer : /\ job'[v].pc = "idle" <=> job'[v].new = None
                           /\ job'[v].pc = "write" <=> job'[v].fd # None
  BY <1>5, <1>6, JobChanges DEF StoreInv
<1>8. content' \in [Inode -> Config \cup {Empty, Mixed}] /\ content'[i] = Empty
      /\ \A k \in Inode : k # i => content'[k] = content[k]
  BY <1>4, <1>5 DEF StoreInv, TypeOK
<1>9. content'[conf'] = content[conf]
  BY <1>1, <1>4, <1>8 DEF StoreInv, TypeOK
<1>10. TypeOK'
  BY <1>1, <1>4, <1>6, <1>7, <1>8 DEF StoreInv, TypeOK, memory
<1>11. OnlyChecked'
  BY <1>1, <1>6, <1>7 DEF StoreInv, OnlyChecked, Up, memory
<1>12. OneProcess'
  BY <1>1, <1>4, <1>6, <1>7, ProcessKept DEF StoreInv, memory
<1>13. SecretNotStored'
  BY <1>8, SecretKept DEF StoreInv
<1>14. ~overlapped' => Alone'
  <2> SUFFICES ASSUME ~overlapped PROVE Alone'
    BY <1>1
  <2>1. Alone /\ (Up <=> Up') /\ (Starting <=> Starting') /\ UNCHANGED <<running, active>>
    <3>1. UNCHANGED <<running, active>> /\ (Up <=> Up')
      BY <1>1 DEF Up, memory
    <3>2. Starting <=> Starting'
      BY <1>1, <1>6, <1>7, Constants DEF Starting
    <3>3. QED
      BY <3>1, <3>2 DEF StoreInv
  <2>2. Up \/ Starting => Accepted(content'[conf'])
    BY <1>9, <2>1 DEF Alone
  <2>3. w = Main /\ Starting => ForDisk(job'[w].new) \in {content'[conf'], Overridden(content'[conf'])}
    BY <1>6, <1>7, <1>9, <2>1 DEF Alone
  <2>4. \A v \in Writer : job[v].pc \notin {"refresh", "swap"}
    BY <1>1, <2>1 DEF Alone
  <2>5. Up => ForDisk(running) \in {content'[conf'], Overridden(content'[conf'])} /\ active = running
    BY <1>9, <2>1, <2>4 DEF Alone
  <2>6. QED
    BY <1>1, <1>6, <1>7, <1>8, <2>1, <2>2, <2>3, <2>5, AloneKept
<1>15. QED
  BY <1>9, <1>10, <1>11, <1>12, <1>13, <1>14 DEF StoreInv

LEMMA WriteKeeps ==
    ASSUME StoreInv, NEW w \in Writer, Write(w)
    PROVE  StoreInv' /\ (~overlapped => content'[conf'] = content[conf])
<1> DEFINE i   == job[w].fd
           j   == [job[w] EXCEPT !.pc = "rename", !.fd = None]
           new == ForDisk(job[w].new)
<1>1. job[w].pc = "write" /\ UNCHANGED <<memory, conf, tmp, overlapped, puts, faults>>
  BY DEF Write
<1>2. job' = [job EXCEPT ![w] = j]
  BY DEF Write
<1>3. i \in Inode /\ new \in Config
  BY <1>1, JobCarries DEF StoreInv, TypeOK, Job
<1>4. PICK c \in {new, Mixed} :
          /\ content' = Kept([content EXCEPT ![i] = c], {conf, tmp}, job')
          /\ content[i] = Empty => c = new
  BY DEF Write
<1>5. /\ j \in Job /\ j.pc = "rename" /\ j.new = job[w].new /\ j.fd = None
      /\ j.new # None
  BY <1>1 DEF Job, StoreInv, TypeOK
<1> HIDE DEF j
<1>6. /\ job' \in [Writer -> Job] /\ job'[w] = j
      /\ \A v \in Writer : v # w => job'[v] = job[v]
      /\ \A v \in Writer : /\ job'[v].pc = "idle" <=> job'[v].new = None
                           /\ job'[v].pc = "write" <=> job'[v].fd # None
  BY <1>2, <1>5, JobChanges DEF StoreInv
<1> DEFINE written == [content EXCEPT ![i] = c]
<1>7. /\ written \in [Inode -> Config \cup {Empty, Mixed}]
      /\ \A k \in Inode : written[k] = IF k = i THEN c ELSE content[k]
  BY <1>3 DEF StoreInv, TypeOK
<1>8. /\ content' \in [Inode -> Config \cup {Empty, Mixed}]
      /\ \A k \in Inode : content'[k] \in {content[k], c, Empty}
      /\ \A k \in Inode \cap {conf, tmp} : content'[k] = IF k = i THEN c ELSE content[k]
  <2>1. content' = Kept(written, {conf, tmp}, job')
    BY <1>4
  <2> HIDE DEF written
  <2>2. QED
    BY <1>7, <2>1, KeptContent
<1>9. TypeOK'
  BY <1>1, <1>5, <1>6, <1>8 DEF StoreInv, TypeOK, memory
<1>10. OnlyChecked'
  BY <1>1, <1>5, <1>6 DEF StoreInv, OnlyChecked, Up, memory
<1>11. OneProcess'
  BY <1>1, <1>5, <1>6, ProcessKept DEF StoreInv, OneProcess, memory
<1>12. SecretNotStored'
  <2>1. c \in {Mixed} \cup {ForDisk(cfg) : cfg \in Config}
    BY <1>1, <1>4, JobCarries DEF StoreInv
  <2>2. QED
    BY <1>8, <2>1, SecretKept DEF StoreInv
<1>13. ASSUME ~overlapped PROVE Alone' /\ content'[conf'] = content[conf]
  <2>1. Alone /\ (Up <=> Up') /\ (Starting <=> Starting') /\ UNCHANGED <<running, active>>
    <3>1. UNCHANGED <<running, active>> /\ (Up <=> Up')
      BY <1>1 DEF Up, memory
    <3>2. Starting <=> Starting'
      BY <1>1, <1>5, <1>6, Constants DEF Starting
    <3>3. QED
      BY <1>13, <3>1, <3>2 DEF StoreInv
  <2>2. i = tmp /\ content[i] = Empty /\ conf # tmp /\ conf \in Inode
    BY <1>1, <2>1 DEF Alone, StoreInv, OneProcess, TypeOK
  <2>3. content'[conf'] = content[conf] /\ content'[tmp'] = new
    BY <1>1, <1>3, <1>4, <1>8, <2>2
  <2>4. Up \/ Starting => Accepted(content'[conf'])
    BY <2>1, <2>3 DEF Alone
  <2>5. w = Main /\ Starting => ForDisk(job'[w].new) \in {content'[conf'], Overridden(content'[conf'])}
    BY <1>5, <1>6, <2>1, <2>3 DEF Alone
  <2>6. \A v \in Writer : job[v].pc \notin {"refresh", "swap"}
    BY <1>1, <2>1 DEF Alone
  <2>7. Up => ForDisk(running) \in {content'[conf'], Overridden(content'[conf'])} /\ active = running
    BY <2>1, <2>3, <2>6 DEF Alone
  <2>8. tmp' # None
    BY <1>1, <1>3, <2>2, Files
  <2>9. Alone'
    BY <1>1, <1>5, <1>6, <2>1, <2>3, <2>4, <2>5, <2>7, <2>8, AloneKept
  <2>10. QED
    BY <2>3, <2>9
<1>14. QED
  BY <1>1, <1>9, <1>10, <1>11, <1>12, <1>13 DEF StoreInv

LEMMA RenameKeeps ==
    ASSUME StoreInv, NEW w \in Writer, Rename(w)
    PROVE  StoreInv' /\ (~overlapped => Accepted(content'[conf']))
<1> DEFINE j == [job[w] EXCEPT !.pc = AfterSave(w)]
<1>1. /\ job[w].pc = "rename" /\ tmp # None /\ conf' = tmp /\ tmp' = None
      /\ UNCHANGED <<memory, overlapped, puts, faults>>
  BY DEF Rename
<1>2. job' = [job EXCEPT ![w] = j]
  BY DEF Rename
<1>3. AfterSave(w) = IF w = Main THEN "serve" ELSE "refresh"
  BY DEF AfterSave
<1>4. /\ j \in Job /\ j.pc = AfterSave(w) /\ j.new = job[w].new /\ j.fd = None
      /\ j.new # None
  BY <1>1, <1>3 DEF Job, StoreInv, TypeOK
<1> HIDE DEF j
<1>5. /\ job' \in [Writer -> Job] /\ job'[w] = j
      /\ \A v \in Writer : v # w => job'[v] = job[v]
      /\ \A v \in Writer : /\ job'[v].pc = "idle" <=> job'[v].new = None
                           /\ job'[v].pc = "write" <=> job'[v].fd # None
  BY <1>2, <1>3, <1>4, JobChanges DEF StoreInv
<1>6. tmp \in Inode
  BY <1>1 DEF StoreInv, TypeOK
<1>7. /\ content' \in [Inode -> Config \cup {Empty, Mixed}]
      /\ \A k \in Inode : content'[k] \in {content[k], Empty}
      /\ content'[tmp] = content[tmp]
  BY <1>6, KeptContent DEF Rename, StoreInv, TypeOK
<1>8. TypeOK'
  BY <1>1, <1>5, <1>6, <1>7 DEF StoreInv, TypeOK, memory
<1>9. OnlyChecked'
  BY <1>1, <1>4, <1>5 DEF StoreInv, OnlyChecked, Up, memory
<1>10. OneProcess'
  BY <1>1, <1>3, <1>4, <1>5, <1>6, Files, ProcessKept DEF StoreInv, memory
<1>11. SecretNotStored'
  BY <1>7, SecretKept DEF StoreInv
<1>12. ASSUME ~overlapped PROVE Alone' /\ Accepted(content'[conf'])
  <2>1. Alone /\ (Up <=> Up') /\ UNCHANGED <<running, active>>
    BY <1>1, <1>12 DEF Up, memory, StoreInv
  <2>2. content'[conf'] = ForDisk(job[w].new)
    BY <1>1, <1>7, <2>1 DEF Alone
  <2>3. Accepted(content'[conf'])
    BY <1>1, <2>2, JobCarries DEF StoreInv
  <2>4. w = Main => ~Up
    BY <1>1 DEF StoreInv, OneProcess, Starting
  <2>5. \A v \in Writer : job[v].pc # "swap"
    BY <1>1, <2>1 DEF Alone
  <2>6. Up => active = running
    BY <2>1, <2>5 DEF Alone
  <2>7. Alone'
    BY <1>1, <1>3, <1>4, <1>5, <2>1, <2>2, <2>3, <2>4, <2>6, AloneKept
  <2>8. QED
    BY <2>3, <2>7
<1>13. QED
  BY <1>1, <1>8, <1>9, <1>10, <1>11, <1>12 DEF StoreInv

\* A writer that gives up leaves what runs, and the name of the file.
LEMMA UnsavedKeeps ==
    ASSUME StoreInv, NEW w \in Writer, job[w].pc \in {"create", "write", "rename"},
           job' = [job EXCEPT ![w] = Unsaved(w)],
           UNCHANGED <<memory, conf, overlapped, puts>>, faults' \in 0..MaxFaults,
           tmp' \in {tmp, None}, content' \in [Inode -> Config \cup {Empty, Mixed}],
           SecretNotStored', ~overlapped => content'[conf] = content[conf]
    PROVE  StoreInv'
<1> DEFINE j == Unsaved(w)
<1>1. j = IF w = Main THEN [job[w] EXCEPT !.pc = "serve", !.fd = None] ELSE Idle
  BY DEF Unsaved
<1>2. job[w].new # None /\ job[w] \in Job
  BY DEF StoreInv, TypeOK
<1>3. /\ j \in Job /\ j.fd = None
      /\ w = Main => j.pc = "serve" /\ j.new = job[w].new
      /\ w # Main => j.pc = "idle" /\ j.new = None
  <2>1. CASE w = Main
    BY <1>1, <1>2, <2>1 DEF Job
  <2>2. CASE w # Main
    BY <1>1, <2>2 DEF Job, Idle
  <2>3. QED
    BY <2>1, <2>2
<1>4. (j.pc = "idle" <=> j.new = None) /\ (j.pc = "write" <=> j.fd # None)
  BY <1>2, <1>3
<1> HIDE DEF j
<1>5. /\ job' \in [Writer -> Job] /\ job'[w] = j
      /\ \A v \in Writer : v # w => job'[v] = job[v]
      /\ \A v \in Writer :
             /\ job'[v].pc = "idle" <=> job'[v].new = None
             /\ job'[v].pc = "write" <=> job'[v].fd # None
  BY <1>3, <1>4, JobChanges DEF StoreInv, j
<1>6. conf # tmp' /\ conf \in Inode
  BY Files DEF StoreInv, TypeOK, OneProcess
<1>7. TypeOK'
  BY <1>5, <1>6 DEF StoreInv, TypeOK, memory
<1>8. OnlyChecked'
  BY <1>3, <1>5 DEF StoreInv, OnlyChecked, Up, memory
<1>9. OneProcess'
  BY <1>3, <1>5, <1>6, ProcessKept DEF StoreInv, memory
<1>10. ASSUME ~overlapped PROVE Alone'
  <2>1. Alone /\ (Up <=> Up') /\ (Starting' => Starting) /\ UNCHANGED <<running, active>>
    <3>1. UNCHANGED <<running, active>> /\ (Up <=> Up')
      BY DEF Up, memory
    <3>2. Starting' => Starting
      BY <1>3, <1>5, Constants DEF Starting
    <3>3. QED
      BY <1>10, <3>1, <3>2 DEF StoreInv
  <2>2. Up \/ Starting' => Accepted(content'[conf'])
    BY <1>10, <2>1 DEF Alone
  <2>3. w = Main /\ Starting' =>
            ForDisk(job'[w].new) \in {content'[conf'], Overridden(content'[conf'])}
    BY <1>3, <1>5, <1>10, <2>1 DEF Alone
  <2>4. \A v \in Writer : job[v].pc \notin {"refresh", "swap"}
    BY <2>1 DEF Alone
  <2>5. Up => ForDisk(running) \in {content'[conf'], Overridden(content'[conf'])} /\ active = running
    BY <1>10, <2>1, <2>4 DEF Alone
  <2>6. QED
    BY <1>3, <1>5, <2>1, <2>2, <2>3, <2>5, AloneKept
<1>11. QED
  BY <1>7, <1>8, <1>9, <1>10 DEF StoreInv

LEMMA RenameNothingKeeps ==
    ASSUME StoreInv, NEW w \in Writer, RenameNothing(w)
    PROVE  StoreInv' /\ content'[conf'] = content[conf]
<1>1. /\ job[w].pc = "rename" /\ job' = [job EXCEPT ![w] = Unsaved(w)]
      /\ UNCHANGED <<memory, content, conf, tmp, overlapped, puts, faults>>
  BY DEF RenameNothing, files
<1>2. SecretNotStored'
  BY <1>1 DEF StoreInv, SecretNotStored
<1>3. faults' \in 0..MaxFaults /\ content' \in [Inode -> Config \cup {Empty, Mixed}]
  BY <1>1 DEF StoreInv, TypeOK
<1>4. QED
  BY <1>1, <1>2, <1>3, UnsavedKeeps

LEMMA SaveFailsKeeps ==
    ASSUME StoreInv, NEW w \in Writer, SaveFails(w)
    PROVE  StoreInv' /\ (~overlapped => content'[conf'] = content[conf])
<1>1. /\ job' = [job EXCEPT ![w] = Unsaved(w)]
      /\ UNCHANGED <<memory, conf, overlapped, puts>>
  BY DEF SaveFails, files
<1>2. job[w].pc \in {"create", "write", "rename"} /\ tmp' \in {tmp, None}
  BY DEF SaveFails, files
<1>3. faults' \in 0..MaxFaults
  <2>1. faults \in 0..MaxFaults /\ MaxFaults \in Nat
    BY Constants DEF StoreInv, TypeOK
  <2>2. faults < MaxFaults /\ faults' = faults + 1
    BY DEF SaveFails
  <2>3. QED
    BY <2>1, <2>2
<1>4. /\ content' \in [Inode -> Config \cup {Empty, Mixed}]
      /\ \A k \in Inode : content'[k] \in {content[k], Empty, Mixed}
      /\ ~overlapped => content'[conf] = content[conf]
  <2>1. CASE job[w].pc = "create"
    BY <2>1 DEF SaveFails, files, StoreInv, TypeOK
  <2>2. CASE job[w].pc = "write"
    <3> DEFINE i == job[w].fd
    <3>1. i \in Inode
      BY <2>2 DEF StoreInv, TypeOK, Job
    <3>2. PICK c \in {content[i], Mixed} :
              content' = Kept([content EXCEPT ![i] = c], {conf, tmp}, job')
      BY <2>2 DEF SaveFails
    <3> DEFINE written == [content EXCEPT ![i] = c]
    <3>3. content' = Kept(written, {conf, tmp}, job')
      BY <3>2
    <3>4. /\ written \in [Inode -> Config \cup {Empty, Mixed}]
          /\ \A k \in Inode : written[k] = IF k = i THEN c ELSE content[k]
      BY <3>1, <3>2 DEF StoreInv, TypeOK
    <3> HIDE DEF written
    <3>5. /\ content' \in [Inode -> Config \cup {Empty, Mixed}]
          /\ \A k \in Inode : content'[k] \in {written[k], Empty}
          /\ \A k \in Inode \cap {conf, tmp} : content'[k] = written[k]
      BY <3>3, <3>4, KeptContent
    <3>6. ~overlapped => i # conf
      BY <2>2 DEF StoreInv, Alone, OneProcess
    <3>7. conf \in Inode
      BY DEF StoreInv, TypeOK
    <3>8. \A k \in Inode : written[k] \in {content[k], Mixed}
      BY <3>2, <3>4
    <3>9. \A k \in Inode : content'[k] \in {content[k], Empty, Mixed}
      BY <3>5, <3>8
    <3>10. ~overlapped => content'[conf] = content[conf]
      BY <3>4, <3>5, <3>6, <3>7
    <3>11. QED
      BY <3>5, <3>9, <3>10
  <2>3. CASE job[w].pc = "rename"
    <3>1. content' = Kept(content, {conf}, job)
      BY <2>3 DEF SaveFails
    <3>2. content \in [Inode -> Config \cup {Empty, Mixed}] /\ conf \in Inode
      BY DEF StoreInv, TypeOK
    <3>3. QED
      BY <3>1, <3>2, KeptContent
  <2>4. QED
    BY <1>2, <2>1, <2>2, <2>3
<1>5. SecretNotStored'
  BY <1>4, SecretKept DEF StoreInv
<1>6. QED
  BY <1>1, <1>2, <1>3, <1>4, <1>5, UnsavedKeeps

-----------------------------------------------------------------------------
(***************************************************************************)
(* A PUT.                                                                  *)
(***************************************************************************)
LEMMA ReceiveKeeps ==
    ASSUME StoreInv, NEW r \in Request, NEW new, Receive(r, new)
    PROVE  /\ StoreInv' /\ content'[conf'] = content[conf]
           /\ UNCHANGED running /\ Up /\ (overlapped => overlapped') /\ overlapped' \in BOOLEAN
<1>1. /\ Up /\ job[r].pc = "idle" /\ UNCHANGED <<memory, content, conf, tmp, faults>>
      /\ UNCHANGED <<running, boot, active>>
  BY DEF Receive, Up, memory, files
<1>2. puts' \in 0..MaxPuts
  <2>1. puts \in 0..MaxPuts /\ MaxPuts \in Nat
    BY Constants DEF StoreInv, TypeOK
  <2>2. puts < MaxPuts /\ puts' = puts + 1
    BY DEF Receive
  <2>3. QED
    BY <2>1, <2>2
<1>3. ~Starting
  BY <1>1 DEF StoreInv, OneProcess
<1>4. CASE ~Accepted(new)
  <2>1. UNCHANGED <<job, overlapped>>
    BY <1>4 DEF Receive
  <2>2. TypeOK' /\ OnlyChecked' /\ OneProcess' /\ SecretNotStored'
    BY <1>1, <1>2, <2>1 DEF StoreInv, TypeOK, OnlyChecked, OneProcess, SecretNotStored, Up, Starting
  <2>3. ~overlapped' => Alone'
    BY <1>1, <2>1 DEF StoreInv, Alone, Up, Starting
  <2>4. QED
    BY <1>1, <2>1, <2>2, <2>3 DEF StoreInv, TypeOK
<1>5. CASE Accepted(new)
  <2> DEFINE j == [pc |-> "create", fd |-> None, new |-> WithToken(new)]
  <2>1. job' = [job EXCEPT ![r] = j] /\ overlapped' = (overlapped \/ Overlaps)
    BY <1>5 DEF Receive
  <2>2. Accepted(WithToken(new)) /\ WithToken(new) \in Config
    BY <1>5, TokenAccepted DEF Accepted
  <2>3. /\ j \in Job /\ j.pc = "create" /\ j.fd = None /\ j.new = WithToken(new) /\ j.new # None
    BY <2>2, Constants DEF Job
  <2> HIDE DEF j
  <2>4. /\ job' \in [Writer -> Job] /\ job'[r] = j
        /\ \A v \in Writer : v # r => job'[v] = job[v]
        /\ \A v \in Writer :
               /\ job'[v].pc = "idle" <=> job'[v].new = None
               /\ job'[v].pc = "write" <=> job'[v].fd # None
    BY <2>1, <2>3, Constants, JobChanges DEF StoreInv
  <2>5. TypeOK'
    BY <1>1, <1>2, <2>1, <2>4 DEF StoreInv, TypeOK
  <2>6. OnlyChecked'
    BY <1>1, <2>2, <2>3, <2>4 DEF StoreInv, OnlyChecked, Up
  <2>7. job'[Main] = job[Main]
    BY <2>4, Constants
  <2>8. OneProcess'
    BY <1>1, <1>3, <2>3, <2>4, <2>7, Constants DEF StoreInv, OneProcess, Up, Starting
  <2>9. SecretNotStored'
    BY <1>1 DEF StoreInv, SecretNotStored
  <2>10. ASSUME ~overlapped' PROVE Alone'
    <3>1. ~overlapped /\ ~Overlaps /\ Alone
      BY <2>1, <2>10 DEF StoreInv
    <3>2. \A v \in Writer : job[v].pc = "idle"
      BY <1>3, <3>1, Constants DEF Overlaps, Starting
    <3>3. \A v \in Writer : v # r => job'[v].pc = "idle"
      BY <2>4, <3>2
    <3>4. /\ Accepted(content[conf]) /\ active = running
          /\ ForDisk(running) \in {content[conf], Overridden(content[conf])}
      BY <1>1, <3>1, <3>2 DEF Alone
    <3>5. QED
      BY <1>1, <2>3, <2>4, <3>3, <3>4, Constants, AloneBy
  <2>11. QED
    BY <1>1, <2>1, <2>5, <2>6, <2>8, <2>9, <2>10 DEF StoreInv, TypeOK
<1>6. QED
  BY <1>4, <1>5

LEMMA RefreshKeeps ==
    ASSUME StoreInv, NEW r \in Request, Refresh(r)
    PROVE  StoreInv' /\ content'[conf'] = content[conf]
<1> DEFINE j == [job[r] EXCEPT !.pc = "swap"]
<1>1. /\ job[r].pc = "refresh" /\ active' = job[r].new /\ job' = [job EXCEPT ![r] = j]
      /\ UNCHANGED <<running, boot, content, conf, tmp, overlapped, puts, faults>>
  BY DEF Refresh, files
<1>2. job[r].new \in Config /\ r \in Writer /\ r # Main
  BY <1>1, Constants, JobCarries DEF StoreInv
<1>3. /\ j \in Job /\ j.pc = "swap" /\ j.new = job[r].new /\ j.fd = None /\ j.new # None
  BY <1>1, <1>2, Constants DEF Job, StoreInv, TypeOK
<1> HIDE DEF j
<1>4. /\ job' \in [Writer -> Job] /\ job'[r] = j
      /\ \A v \in Writer : v # r => job'[v] = job[v]
      /\ \A v \in Writer :
             /\ job'[v].pc = "idle" <=> job'[v].new = None
             /\ job'[v].pc = "write" <=> job'[v].fd # None
  BY <1>1, <1>2, <1>3, JobChanges DEF StoreInv
<1>5. TypeOK'
  BY <1>1, <1>2, <1>4 DEF StoreInv, TypeOK
<1>6. OnlyChecked'
  BY <1>1, <1>3, <1>4 DEF StoreInv, OnlyChecked, Up
<1>7. OneProcess'
  BY <1>1, <1>2, <1>3, <1>4, ProcessKept DEF StoreInv, OneProcess
<1>8. SecretNotStored'
  BY <1>1 DEF StoreInv, SecretNotStored
<1>9. ASSUME ~overlapped PROVE Alone'
  <2>1. Alone /\ (Up <=> Up') /\ (Starting <=> Starting')
    <3>1. job'[Main] = job[Main]
      BY <1>2, <1>4, Constants
    <3>2. QED
      BY <1>1, <1>9, <3>1 DEF StoreInv, Up, Starting
  <2>2. content[conf] = ForDisk(job[r].new) /\ (Up \/ Starting => Accepted(content[conf]))
    BY <1>1, <1>2, <2>1 DEF Alone
  <2>3. QED
    BY <1>1, <1>2, <1>3, <1>4, <2>1, <2>2, AloneKept
<1>10. QED
  BY <1>1, <1>5, <1>6, <1>7, <1>8, <1>9 DEF StoreInv

LEMMA SwapKeeps ==
    ASSUME StoreInv, NEW r \in Request, Swap(r)
    PROVE  /\ StoreInv' /\ Up /\ Up' /\ Accepted(ForDisk(running'))
           /\ UNCHANGED <<content, conf, overlapped>>
           /\ ~overlapped => Accepted(content[conf]) /\ ForDisk(running') = content[conf]
<1>1. /\ job[r].pc = "swap" /\ running' = job[r].new /\ job' = [job EXCEPT ![r] = Idle]
      /\ UNCHANGED <<boot, active, content, conf, tmp, overlapped, puts, faults>>
  BY DEF Swap, files
<1>2. /\ r \in Writer /\ r # Main /\ job[r].new \in Config
      /\ Accepted(job[r].new) /\ Accepted(ForDisk(job[r].new))
  BY <1>1, Constants, JobCarries DEF StoreInv
<1>3. Up /\ Up' /\ ~Starting
  BY <1>1, <1>2, Constants DEF StoreInv, OneProcess, Up
<1>4. /\ Idle \in Job /\ Idle.pc = "idle" /\ Idle.new = None /\ Idle.fd = None
  BY DEF Idle, Job
<1>5. /\ job' \in [Writer -> Job] /\ job'[r] = Idle
      /\ \A v \in Writer : v # r => job'[v] = job[v]
      /\ \A v \in Writer :
             /\ job'[v].pc = "idle" <=> job'[v].new = None
             /\ job'[v].pc = "write" <=> job'[v].fd # None
  BY <1>1, <1>2, <1>4, JobChanges DEF StoreInv
<1>6. TypeOK'
  BY <1>1, <1>2, <1>5 DEF StoreInv, TypeOK
<1>7. OnlyChecked'
  BY <1>1, <1>2, <1>3, <1>4, <1>5 DEF StoreInv, OnlyChecked
<1>8. job'[Main] = job[Main]
  BY <1>2, <1>5, Constants
<1>9. OneProcess'
  BY <1>1, <1>3, <1>4, <1>5, <1>8, Constants DEF StoreInv, OneProcess, Starting
<1>10. SecretNotStored'
  BY <1>1 DEF StoreInv, SecretNotStored
<1>11. ASSUME ~overlapped
       PROVE  Alone' /\ Accepted(content[conf]) /\ ForDisk(running') = content[conf]
  <2>1. Alone
    BY <1>11 DEF StoreInv
  <2>2. /\ content[conf] = ForDisk(job[r].new) /\ active = job[r].new
        /\ Accepted(content[conf])
    BY <1>1, <1>2, <1>3, <2>1 DEF Alone
  <2>3. Alone'
    BY <1>1, <1>2, <1>4, <1>5, <2>1, <2>2, AloneKept
  <2>4. QED
    BY <1>1, <2>2, <2>3
<1>12. QED
  BY <1>1, <1>2, <1>3, <1>6, <1>7, <1>9, <1>10, <1>11 DEF StoreInv

-----------------------------------------------------------------------------
(***************************************************************************)
(* The start and the end of the process.                                   *)
(***************************************************************************)
LEMMA LoadKeeps ==
    ASSUME StoreInv, Load
    PROVE  /\ StoreInv' /\ ~Up /\ Accepted(content[conf]) /\ ~overlapped'
           /\ UNCHANGED <<running, content, conf>>
<1> DEFINE file == content[conf]
           new  == WithToken(Overridden(file))
           j    == [pc  |-> IF Overridden(file) = file THEN "serve" ELSE "create",
                    new |-> new, fd |-> None]
<1>1. /\ ~Up /\ job[Main].pc = "idle" /\ Accepted(file)
      /\ job' = [job EXCEPT ![Main] = j] /\ overlapped' = FALSE
      /\ UNCHANGED <<running, boot, active, content, conf, tmp, puts, faults>>
  BY DEF Load, Up, memory, files
<1>2. Accepted(Overridden(file)) /\ Overridden(file) \in Config /\ file \in Config
  BY <1>1, OverriddenAccepted DEF Accepted
<1>3. Accepted(new) /\ new \in Config
  BY <1>2, TokenAccepted DEF Accepted
<1>4. ForDisk(new) = Overridden(file)
  <2>1. conf \in Inode /\ file \notin {Empty, Mixed}
    BY <1>2, Constants DEF StoreInv, TypeOK
  <2>2. SupervisorToken # "" => file.home_assistant.token # SupervisorToken
    BY <2>1 DEF StoreInv, SecretNotStored
  <2>3. Overridden(file).home_assistant = file.home_assistant
    BY <1>1, OverriddenAccepted
  <2>4. QED
    BY <1>2, <2>2, <2>3, TokenAndBack
<1>5. /\ j \in Job /\ j.pc \in {"serve", "create"} /\ j.new = new /\ j.fd = None /\ j.new # None
  BY <1>3, Constants DEF Job
<1> HIDE DEF j, new
<1>6. /\ job' \in [Writer -> Job] /\ job'[Main] = j
      /\ \A v \in Writer : v # Main => job'[v] = job[v]
      /\ \A v \in Writer :
             /\ job'[v].pc = "idle" <=> job'[v].new = None
             /\ job'[v].pc = "write" <=> job'[v].fd # None
  BY <1>1, <1>5, Constants, JobChanges DEF StoreInv
<1>7. \A v \in Writer : v # Main => job'[v].pc = "idle"
  BY <1>1, <1>6, Constants DEF StoreInv, OneProcess
<1>8. TypeOK'
  BY <1>1, <1>6 DEF StoreInv, TypeOK
<1>9. OnlyChecked'
  BY <1>1, <1>3, <1>5, <1>6 DEF StoreInv, OnlyChecked, Up
<1>10. OneProcess'
  BY <1>1, <1>5, <1>6, <1>7, Constants DEF StoreInv, OneProcess, Up, Starting
<1>11. SecretNotStored'
  BY <1>1 DEF StoreInv, SecretNotStored
<1>12. Alone'
  BY <1>1, <1>4, <1>5, <1>6, <1>7, Constants, AloneBy DEF Up
<1>13. QED
  BY <1>1, <1>8, <1>9, <1>10, <1>11, <1>12 DEF StoreInv

LEMMA ServeKeeps ==
    ASSUME StoreInv, Serve
    PROVE  /\ StoreInv' /\ ~Up /\ Up' /\ Accepted(content[conf]) /\ ~overlapped
           /\ ForDisk(running') \in {content[conf], Overridden(content[conf])}
           /\ UNCHANGED <<content, conf, overlapped>>
<1> DEFINE new == job[Main].new
<1>1. /\ job[Main].pc = "serve" /\ job' = [job EXCEPT ![Main] = Idle]
      /\ running' = new /\ boot' = new /\ active' = new
      /\ UNCHANGED <<content, conf, tmp, overlapped, puts, faults>>
  BY DEF Serve, files
<1>2. Starting /\ ~Up /\ ~overlapped /\ Alone
  BY <1>1 DEF StoreInv, OneProcess, Starting
<1>3. Accepted(new) /\ new \in Config /\ Up'
  BY <1>1, Constants, JobCarries DEF StoreInv, Up
<1>4. /\ Accepted(content[conf])
      /\ ForDisk(new) \in {content[conf], Overridden(content[conf])}
  BY <1>2 DEF Alone
<1>5. /\ Idle \in Job /\ Idle.pc = "idle" /\ Idle.new = None /\ Idle.fd = None
  BY DEF Idle, Job
<1>6. /\ job' \in [Writer -> Job] /\ job'[Main] = Idle
      /\ \A v \in Writer : v # Main => job'[v] = job[v]
      /\ \A v \in Writer :
             /\ job'[v].pc = "idle" <=> job'[v].new = None
             /\ job'[v].pc = "write" <=> job'[v].fd # None
  BY <1>1, <1>5, Constants, JobChanges DEF StoreInv
<1>7. \A v \in Writer : v # Main => job'[v].pc = "idle"
  BY <1>1, <1>2, <1>6, Constants DEF Alone
<1>8. TypeOK'
  BY <1>1, <1>3, <1>6 DEF StoreInv, TypeOK
<1>9. OnlyChecked'
  BY <1>1, <1>3, <1>5, <1>6 DEF StoreInv, OnlyChecked, Up
<1>10. OneProcess'
  BY <1>1, <1>3, <1>5, <1>6, Constants DEF StoreInv, OneProcess, Starting
<1>11. SecretNotStored'
  BY <1>1 DEF StoreInv, SecretNotStored
<1>12. Alone'
  BY <1>1, <1>4, <1>5, <1>6, <1>7, Constants, AloneBy DEF Starting
<1>13. QED
  BY <1>1, <1>2, <1>3, <1>4, <1>8, <1>9, <1>10, <1>11, <1>12 DEF StoreInv

LEMMA CrashKeeps ==
    ASSUME StoreInv, Crash
    PROVE  StoreInv' /\ ~Up' /\ content'[conf'] = content[conf] /\ UNCHANGED overlapped
<1>1. /\ running' = None /\ boot' = None /\ active' = None
      /\ job' = [w \in Writer |-> Idle]
      /\ content' = Kept(content, {conf, tmp}, job')
      /\ UNCHANGED <<conf, tmp, overlapped, puts, faults>>
  BY DEF Crash
<1>2. content \in [Inode -> Config \cup {Empty, Mixed}] /\ conf \in Inode
  BY DEF StoreInv, TypeOK
<1>3. /\ content' \in [Inode -> Config \cup {Empty, Mixed}]
      /\ \A k \in Inode : content'[k] \in {content[k], Empty}
      /\ content'[conf] = content[conf]
  BY <1>1, <1>2, KeptContent
<1>4. /\ Idle \in Job /\ Idle.pc = "idle" /\ Idle.new = None /\ Idle.fd = None
  BY DEF Idle, Job
<1>5. /\ job' \in [Writer -> Job]
      /\ \A v \in Writer : job'[v].pc = "idle" /\ job'[v].new = None /\ job'[v].fd = None
  BY <1>1, <1>4
<1>6. TypeOK'
  BY <1>1, <1>3, <1>5 DEF StoreInv, TypeOK
<1>7. OnlyChecked' /\ OneProcess' /\ Alone'
  BY <1>1, <1>5, Constants DEF StoreInv, OnlyChecked, OneProcess, Alone, Up, Starting
<1>8. SecretNotStored'
  BY <1>3, SecretKept DEF StoreInv
<1>9. QED
  BY <1>1, <1>3, <1>6, <1>7, <1>8 DEF StoreInv, Up

-----------------------------------------------------------------------------
(***************************************************************************)
(* The invariant, and the promise.                                         *)
(***************************************************************************)
LEMMA StoreStep == StoreInv /\ [Next]_vars => StoreInv'
<1> SUFFICES ASSUME StoreInv, [Next]_vars PROVE StoreInv'
  OBVIOUS
<1>1. ASSUME NEW w \in Writer,
             Create(w) \/ Write(w) \/ Rename(w) \/ RenameNothing(w) \/ SaveFails(w)
      PROVE  StoreInv'
  BY <1>1, CreateKeeps, WriteKeeps, RenameKeeps, RenameNothingKeeps, SaveFailsKeeps
<1>2. ASSUME NEW r \in Request,
             (\E new \in Submitted : Receive(r, new)) \/ Refresh(r) \/ Swap(r)
      PROVE  StoreInv'
  BY <1>2, ReceiveKeeps, RefreshKeeps, SwapKeeps
<1>3. CASE Load \/ Serve \/ Crash
  BY <1>3, LoadKeeps, ServeKeeps, CrashKeeps
<1>4. CASE UNCHANGED vars
  BY <1>4 DEF vars, memory, files, StoreInv, TypeOK, OnlyChecked, OneProcess, SecretNotStored,
              Alone, Up, Starting
<1>5. QED
  BY <1>1, <1>2, <1>3, <1>4 DEF Next

\* Types, checks, processes and names, for any requests and failures; and where no
\* two requests have overlapped, what runs is what is saved until a rename, and
\* what is saved after it.
THEOREM StoreInvariance == Spec => []StoreInv
<1>1. QED
  BY StoreInit, StoreStep, PTL DEF Spec

\* "Drop SUPERVISOR_TOKEN before writing" (admin_save_config): the token is in no
\* file, however many requests write at once and wherever the process dies.
THEOREM TokenStaysInMemory == Spec => []SecretNotStored
<1>1. StoreInv => SecretNotStored
  BY DEF StoreInv
<1>2. QED
  BY <1>1, StoreInvariance, PTL

\* The next process finds a file that it can load (Config::save, write and rename),
\* whatever the file system refuses, unless two requests overlap.
THEOREM LoadsAgain == Spec => []RestartLoads
<1>1. StoreInv => RestartLoads
  BY DEF StoreInv, Alone, RestartLoads
<1>2. QED
  BY <1>1, StoreInvariance, PTL

\* Once nothing is under way, memory, active flags and file agree.
THEOREM MemoryIsFile == Spec => []QuietAgrees
<1>1. StoreInv => QuietAgrees
  BY DEF StoreInv, Alone, QuietAgrees
<1>2. QED
  BY <1>1, StoreInvariance, PTL

\* The clamp of compute_targets never panics, whatever PUTs came since the start.
THEOREM ClampNeverPanics == Spec => []BoundsFit
<1>1. StoreInv => BoundsFit
  <2> SUFFICES ASSUME StoreInv, Up, NEW b \in Items(boot.batteries),
                      NEW soc \in Option(SoC), NEW locked \in BOOLEAN,
                      NEW full \in Option(SoC), NEW empty \in Option(SoC)
               PROVE  LET bms  == [full |-> full, empty |-> empty]
                          low  == low_bound(b, soc, bms, running.dispatcher, locked)
                          high == high_bound(b, soc, bms, running.dispatcher, locked)
                      IN  /\ low <= 0 /\ 0 <= high
                          /\ \E c \in Items(boot.circuits) :
                                 c.id = b.circuit /\ -low <= cap_w(c) /\ high <= cap_w(c)
    BY DEF BoundsFit
  <2>1. boot \in Config /\ validate(boot)
    BY DEF StoreInv, OnlyChecked, Accepted
  <2>2. QED
    BY <2>1, BoundsInOrder
<1>2. QED
  BY <1>1, StoreInvariance, PTL

\* A taper of a configuration that runs reduces its direction where it begins.
THEOREM TapersAct == Spec => []TaperActs
<1>1. StoreInv => TaperActs
  <2> SUFFICES ASSUME StoreInv, Up, NEW b \in Items(running.batteries)
               PROVE  /\ \A t \in b.charge_taper_soc_pct :
                             LET low == low_bound(b, {t}, NoCutoffs, running.dispatcher, FALSE)
                             IN  -b.max_charge_w < low /\ low < 0
                      /\ \A t \in b.discharge_taper_soc_pct :
                             LET high == high_bound(b, {t}, NoCutoffs, running.dispatcher, FALSE)
                             IN  0 < high /\ high < b.max_discharge_w
    BY DEF TaperActs
  <2>1. running \in Config /\ validate(running)
    BY DEF StoreInv, OnlyChecked, Accepted
  <2>2. QED
    BY <2>1, TaperReduces DEF NoCutoffs
<1>2. QED
  BY <1>1, StoreInvariance, PTL

\* No battery is shadowed in by_unit_id (modbus_server), by_unit_id keeping one
\* battery for a unit.
THEOREM EveryUnitServed == Spec => []UnitsServed
<1>1. StoreInv => UnitsServed
  <2> SUFFICES ASSUME StoreInv, Up, boot.virtual_modbus.enabled
               PROVE  Cardinality({effective_virtual_unit_id(boot, i) : i \in DOMAIN boot.batteries})
                          = Len(boot.batteries)
    BY DEF UnitsServed
  <2> DEFINE all   == DOMAIN boot.batteries
             unit  == [i \in all |-> effective_virtual_unit_id(boot, i)]
             units == {effective_virtual_unit_id(boot, i) : i \in all}
  <2>1. boot \in Config /\ VirtualModbusOK(boot)
    BY DEF StoreInv, OnlyChecked, Accepted, validate
  <2>2. boot.batteries \in Seq(BatteryConfig)
    BY <2>1 DEF Config
  <2>3. all = 1..Len(boot.batteries) /\ Len(boot.batteries) \in Nat
    BY <2>2
  <2>4. IsFiniteSet(all) /\ Cardinality(all) = Len(boot.batteries)
    BY <2>3, FS_Interval
  <2>5. \A i, j \in all : unit[i] = unit[j] => i = j
    BY <2>1 DEF VirtualModbusOK
  <2>6. unit \in [all -> units] /\ \A u \in units : \E i \in all : unit[i] = u
    OBVIOUS
  <2> HIDE DEF unit, units
  <2>7. unit \in Injection(all, units) /\ unit \in Surjection(all, units)
    BY <2>5, <2>6 DEF Injection, Surjection, IsInjective
  <2>8. ExistsBijection(all, units)
    BY <2>7 DEF ExistsBijection, Bijection
  <2>9. Cardinality(units) = Len(boot.batteries)
    BY <2>4, <2>8, FS_Bijection
  <2>10. QED
    BY <2>9 DEF units
<1>2. QED
  BY <1>1, StoreInvariance, PTL

\* Every step of the store is one of the promise, or leaves what is saved and what
\* runs as they are.
LEMMA StepRefines ==
    StoreInv /\ [Next]_vars =>
        [Promise!Next]_<<content[conf], IF Up THEN ForDisk(running) ELSE None, overlapped>>
<1> DEFINE Saved == content[conf]
           Runs  == IF Up THEN ForDisk(running) ELSE None
<1> SUFFICES ASSUME StoreInv, [Next]_vars
             PROVE  \/ Promise!Next
                    \/ Saved' = Saved /\ Runs' = Runs /\ overlapped' = overlapped
  OBVIOUS
<1>1. Up => Runs = ForDisk(running) /\ Runs # None /\ Accepted(Runs)
  BY TokenAccepted, Constants DEF StoreInv, OnlyChecked, Accepted
<1>2. overlapped \in BOOLEAN
  BY DEF StoreInv, TypeOK
\* A writer: it saves, or muddles what has overlapped.
<1>3. ASSUME NEW w \in Writer, job[w].pc # "idle", overlapped
      PROVE  Up
  BY <1>3, Constants DEF StoreInv, OneProcess, Starting
<1>4. ASSUME Up, overlapped, UNCHANGED <<running, overlapped>>
      PROVE  Promise!Next
  BY <1>1, <1>4 DEF Promise!Next, Promise!Muddle, Up, ForDisk
<1>5. ASSUME Accepted(Saved'), UNCHANGED <<running, overlapped>>
      PROVE  Promise!Next
  BY <1>5 DEF Promise!Next, Promise!Save, Up, ForDisk
<1>6. ASSUME NEW w \in Writer,
             Create(w) \/ Write(w) \/ Rename(w) \/ RenameNothing(w) \/ SaveFails(w)
      PROVE  \/ Promise!Next
             \/ Saved' = Saved /\ Runs' = Runs /\ overlapped' = overlapped
  <2>1. job[w].pc # "idle" /\ UNCHANGED <<running, overlapped>>
    BY <1>6 DEF Create, Write, Rename, RenameNothing, SaveFails, memory
  <2>2. CASE overlapped
    BY <1>3, <1>4, <2>1, <2>2
  <2>3. CASE ~overlapped
    <3>1. Saved' = Saved \/ Accepted(Saved')
      BY <1>6, <2>3, CreateKeeps, WriteKeeps, RenameKeeps, RenameNothingKeeps, SaveFailsKeeps
    <3>2. Runs' = Runs
      BY <2>1 DEF Up, ForDisk
    <3>3. QED
      BY <1>5, <2>1, <3>1, <3>2
  <2>4. QED
    BY <2>2, <2>3
\* A PUT: it may overlap another one; at its end, what was saved is taken over.
<1>7. ASSUME NEW r \in Request, NEW new, Receive(r, new)
      PROVE  \/ Promise!Next
             \/ Saved' = Saved /\ Runs' = Runs /\ overlapped' = overlapped
  <2>1. Saved' = Saved /\ Runs' = Runs /\ Up /\ (overlapped => overlapped')
    BY <1>7, ReceiveKeeps DEF Up, ForDisk
  <2>2. CASE overlapped'
    BY <1>1, <2>1, <2>2 DEF Promise!Next, Promise!Muddle, Up
  <2>3. CASE ~overlapped'
    BY <1>2, <1>7, <2>1, <2>3, ReceiveKeeps
  <2>4. QED
    BY <2>2, <2>3
<1>8. ASSUME NEW r \in Request, Refresh(r)
      PROVE  Saved' = Saved /\ Runs' = Runs /\ overlapped' = overlapped
  BY <1>8, RefreshKeeps DEF Refresh, Up, ForDisk
<1>9. ASSUME NEW r \in Request, Swap(r)
      PROVE  Promise!Next
  <2>1. /\ Up /\ Up' /\ Accepted(ForDisk(running')) /\ UNCHANGED <<Saved, overlapped>>
        /\ ~overlapped => Accepted(Saved) /\ ForDisk(running') = Saved
    BY <1>9, SwapKeeps
  <2>2. Runs' = ForDisk(running') /\ Runs # None
    BY <1>1, <2>1 DEF ForDisk
  <2>3. CASE overlapped
    BY <2>1, <2>2, <2>3 DEF Promise!Next, Promise!Muddle
  <2>4. CASE ~overlapped
    <3>1. overlapped = FALSE /\ overlapped' = FALSE
      BY <1>2, <2>1, <2>4
    <3>2. overlapped' = (overlapped /\ Runs # None)
      BY <3>1
    <3>3. Accepted(Saved) /\ Runs' \in {Saved, Overridden(Saved)} /\ UNCHANGED Saved
      BY <2>1, <2>2, <2>4
    <3>4. QED
      BY <3>2, <3>3 DEF Promise!Next, Promise!Adopt
  <2>5. QED
    BY <2>3, <2>4
\* The process.
<1>10. CASE Load
  BY <1>10, LoadKeeps DEF Promise!Next, Promise!Clear, Up, ForDisk
<1>11. CASE Serve
  <2>1. /\ ~Up /\ Up' /\ Accepted(Saved) /\ ~overlapped /\ UNCHANGED <<Saved, overlapped>>
        /\ ForDisk(running') \in {Saved, Overridden(Saved)}
    BY <1>11, ServeKeeps
  <2>2. Runs' = ForDisk(running') /\ Runs = None
    BY <2>1 DEF ForDisk
  <2>3. overlapped = FALSE /\ overlapped' = FALSE
    BY <1>2, <2>1
  <2>4. overlapped' = (overlapped /\ Runs # None)
    BY <2>3
  <2>5. Accepted(Saved) /\ Runs' \in {Saved, Overridden(Saved)} /\ UNCHANGED Saved
    BY <2>1, <2>2
  <2>6. QED
    BY <2>4, <2>5 DEF Promise!Next, Promise!Adopt
<1>12. CASE Crash
  BY <1>12, CrashKeeps DEF Promise!Next, Promise!Stop
<1>13. CASE UNCHANGED vars
  BY <1>13 DEF vars, memory, files, Up, ForDisk
<1>14. QED
  BY <1>6, <1>7, <1>8, <1>9, <1>10, <1>11, <1>12, <1>13 DEF Next

\* A process runs what is saved, a change is saved before it runs, and whatever
\* runs has passed the checks: the store implements SavedConfig.
THEOREM StoreImplements == Spec => ImplementsStore
<1>1. Init => Promise!Init
  BY DEF Init, Promise!Init, Up
<1>2. QED
  BY <1>1, StepRefines, StoreInvariance, PTL DEF Spec, ImplementsStore, Promise!Spec

=============================================================================
