------------------------------ MODULE Registry ------------------------------
(***************************************************************************)
(* The processor table of the core: which workers are attached, which      *)
(* modules they registered, which workers each function of a module can be *)
(* run by, and what the operator mounted.  The processor thread alone      *)
(* changes the table, one request at a time, so an action is a whole call. *)
(*                                                                         *)
(* A module of the table is a name with a version, a function a pair       *)
(* <<module, name>> with the list of workers that registered it, in order. *)
(* The code deletes a function whose list is empty, so the empty list      *)
(* stands for a function that is not in the table.                         *)
(***************************************************************************)
EXTENDS Integers, Sequences, FiniteSets, SequencesExt

CONSTANTS
  Workers,     \* identifiers of the connections of workers
  Modules,     \* names of modules
  Functions,   \* pairs <<module, name>>
  Offers,      \* descriptions of modules that workers send; "version" stands for contact too
  StaticMount, \* functions whose description asks for them to be mounted
  Absent       \* the version of a module that is not in the table

Versions == {o.version : o \in Offers}

ASSUME RegistryAssumption ==
  /\ Functions \subseteq Modules \X STRING
  /\ StaticMount \subseteq Functions
  /\ Absent \notin Versions
  /\ \A o \in Offers : /\ o.worker \in Workers
                       /\ o.module \in Modules
                       /\ o.functions \subseteq {f \in Functions : f[1] = o.module}

VARIABLES
  processors,   \* workers in the order they were added
  noted,        \* Processor.Modules: modules a worker tried to register
  numOfRuns,    \* Processor.NumOfRuns
  version,      \* version of each module of the table
  mounted,      \* modules and functions that are mounted
  hosts,        \* Function.Processors
  claims,       \* history: functions each attached worker registered, as <<worker, function>>
  clashed,      \* history: modules refused after they were noted, as <<worker, module>>
  robbed        \* history: claims that the removal of another worker undid

tableVars == <<processors, noted, numOfRuns, version, mounted, hosts, claims, clashed, robbed>>

Listed     == Range(processors)
HasModule(m)   == version[m] # Absent
HasFunction(f) == hosts[f] # <<>>
Of(m)          == {f \in Functions : f[1] = m}

Empty ==
  /\ processors = <<>>
  /\ noted = [w \in Workers |-> {}]
  /\ numOfRuns = [w \in Workers |-> 0]
  /\ version = [m \in Modules |-> Absent]
  /\ mounted = {}
  /\ hosts = [f \in Functions |-> <<>>]
  /\ claims = {}
  /\ clashed = {}
  /\ robbed = {}
-----------------------------------------------------------------------------
(* Workers. *)

AddProcessor(w) ==
  /\ w \notin Listed
  /\ processors' = Append(processors, w)
  /\ noted' = [noted EXCEPT ![w] = {}]
  /\ numOfRuns' = [numOfRuns EXCEPT ![w] = 0]
  /\ UNCHANGED <<version, mounted, hosts, claims, clashed, robbed>>

\* For the checks: a loop that does not break.
NeverBreaks(list, w) == Len(list)

\* Where a loop that breaks at the first w stops: at the last place when there is none.
StopsAt(list, w) ==
  IF w \in Range(list) THEN CHOOSE i \in DOMAIN list : list[i] = w ELSE Len(list)

\* What is left of a list from which the worker the loop stopped at was taken.
Without(list, w) == IF list = <<>> THEN list ELSE RemoveAt(list, StopsAt(list, w))

\* Functions that no worker is left for go, and with its last function the module.
Prune(left) ==
  LET gone    == {f \in Functions : left[f] = <<>>}
      emptied == {m \in Modules : Of(m) \subseteq gone}
  IN /\ hosts' = left
     /\ version' = [m \in Modules |-> IF m \in emptied THEN Absent ELSE version[m]]
     /\ mounted' = mounted \ (gone \cup emptied)

\* The worker is taken from the list of every function of the table, also of those it
\* never registered: the loop that looks for it then stops at another one.
RemoveProcessor(w) ==
  /\ processors # <<>>
  /\ LET instance == processors[StopsAt(processors, w)]
         elsewhere == {f \in Functions : HasFunction(f) /\ instance \notin Range(hosts[f])}
         Other(r)  == r[1] # instance
     IN /\ processors' = Without(processors, w)
        /\ Prune([f \in Functions |-> Without(hosts[f], instance)])
        /\ noted' = [noted EXCEPT ![instance] = {}]
        /\ numOfRuns' = [numOfRuns EXCEPT ![instance] = 0]
        /\ claims' = {r \in claims : Other(r)}
        /\ clashed' = {r \in clashed : Other(r)}
        /\ robbed' = {r \in robbed : Other(r)} \cup {<<Last(hosts[f]), f>> : f \in elsewhere}

\* For the checks: only functions nobody registered before get the worker.
JoinedIfNew(o) ==
  [f \in Functions |-> IF f \in o.functions /\ ~HasFunction(f) THEN <<o.worker>> ELSE hosts[f]]

\* The worker joins the list of every function it describes, new or known.
Joined(o) ==
  [f \in Functions |-> IF f \in o.functions THEN Append(hosts[f], o.worker) ELSE hosts[f]]

\* A worker describes a module.  Its name is noted before the version is compared.
AddModule(o) ==
  LET w == o.worker
      m == o.module
      new == {f \in o.functions : ~HasFunction(f)}
  IN /\ w \in Listed
     /\ m \notin noted[w]
     /\ noted' = [noted EXCEPT ![w] = @ \cup {m}]
     /\ IF HasModule(m) /\ version[m] # o.version
          THEN /\ clashed' = clashed \cup {<<w, m>>}
               /\ UNCHANGED <<version, mounted, hosts, claims>>
          ELSE /\ version' = [version EXCEPT ![m] = o.version]
               /\ hosts' = Joined(o)
               /\ mounted' = mounted \cup {m} \cup (new \cap StaticMount)
               /\ claims' = claims \cup ({w} \X o.functions)
               /\ UNCHANGED clashed
     /\ UNCHANGED <<processors, numOfRuns, robbed>>
-----------------------------------------------------------------------------
(* The operator. *)

Mount(x)   == mounted' = mounted \cup {x}
Unmount(x) == mounted' = mounted \ {x}

untouched == <<processors, noted, numOfRuns, version, hosts, claims, clashed, robbed>>

MountModule(m)     == HasModule(m) /\ Mount(m) /\ UNCHANGED untouched
UnMountModule(m)   == HasModule(m) /\ Unmount(m) /\ UNCHANGED untouched
MountFunction(f)   == HasModule(f[1]) /\ HasFunction(f) /\ Mount(f) /\ UNCHANGED untouched
UnMountFunction(f) == HasModule(f[1]) /\ HasFunction(f) /\ Unmount(f) /\ UNCHANGED untouched

GetProcessors   == Listed
GetModules      == {m \in Modules : HasModule(m)}
GetFunctions(m) == {f \in Of(m) : HasFunction(f)}

\* The workers for a pipeline of functions fs: any that runs one of them, least used first.
Candidates(fs) == UNION {Range(hosts[f]) : f \in fs}
Placeable(fs)  ==
  /\ \A f \in fs : HasModule(f[1]) /\ f[1] \in mounted /\ HasFunction(f) /\ f \in mounted
  /\ Candidates(fs) # {}

FindCandidateProcessor(fs, w) ==
  /\ Placeable(fs)
  /\ w \in Candidates(fs)
  /\ \A v \in Candidates(fs) : numOfRuns[w] <= numOfRuns[v]
  /\ numOfRuns' = [numOfRuns EXCEPT ![w] = @ + 1]
  /\ UNCHANGED <<processors, noted, version, mounted, hosts, claims, clashed, robbed>>
-----------------------------------------------------------------------------
(* Properties. *)

\* The types of the table, of which Api.TypeOK is made.
TableTypeOK ==
  /\ processors \in Seq(Workers)
  /\ noted \in [Workers -> SUBSET Modules]
  /\ numOfRuns \in [Workers -> Nat]
  /\ version \in [Modules -> Versions \cup {Absent}]
  /\ mounted \subseteq Modules \cup Functions
  /\ hosts \in [Functions -> Seq(Workers)]
  /\ claims \subseteq Workers \X Functions
  /\ clashed \subseteq Workers \X Modules
  /\ robbed \subseteq Workers \X Functions

\* A worker a run can be placed on is attached and has registered the function's module,
\* once: RemoveProcessor and AddModule keep the table's lists and the worker's own list of
\* modules together.
HostsAreListed ==
  /\ \A i, j \in DOMAIN processors : processors[i] = processors[j] => i = j
  /\ \A f \in Functions :
       /\ \A w \in Range(hosts[f]) : w \in Listed /\ f[1] \in noted[w]
       /\ \A i, j \in DOMAIN hosts[f] : hosts[f][i] = hosts[f][j] => i = j
       /\ HasFunction(f) => HasModule(f[1])

\* A worker can be given runs of the functions it registered for as long as it is attached,
\* and a module noted on it is one it registered.  The exceptions are the two ways the table
\* loses a registration: a version that clashed after the module was noted, and the removal
\* of a worker that does not run the function, which takes the last one that does.
RegisteredIsOffered ==
  /\ \A r \in claims \ robbed : r[1] \in Range(hosts[r[2]])
  /\ \A w \in Listed : \A m \in noted[w] :
       \/ <<w, m>> \in clashed
       \/ \E o \in Offers : o.worker = w /\ o.module = m /\ ({w} \X o.functions) \subseteq claims
=============================================================================
