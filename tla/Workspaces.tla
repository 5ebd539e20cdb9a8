----------------------------- MODULE Workspaces -----------------------------
(***************************************************************************)
(* The runtime directory (workspace.rs, config.rs, setup.rs, assets.rs,    *)
(* paths.rs): `workspace create` makes the directories and files of a      *)
(* workspace one after the other and then, if no workspace is the default  *)
(* yet, names it in config.yml; `setup` makes the runtime directory and a  *)
(* config.yml without a default.  No lock is held, config.yml is truncated *)
(* before it is written, and a command may die between any two steps.      *)
(***************************************************************************)
EXTENDS Naturals, Sequences

CONSTANTS
    Hands,    \* the processes that run a command, one each
    Names,    \* the safe workspace names
    Unsafe,   \* what else may be given as a name
    NoName    \* the empty string: no name, no default workspace

ASSUME WorkspacesAssumption ==
    NoName \notin Names /\ Names \cap Unsafe = {}

VARIABLES
    made,    \* the directories and files there are
    config,  \* config.yml: is there one, and the default_workspace it names
    work,    \* the command each process is at, and how far it got
    settled  \* history: the default when last nobody was at work

workspacesVars == <<made, config, work, settled>>

\* Mutant: the default is named before the workspace is filled.
CreateSteps_Early == <<"runtime", "workspaces", "root", "config", "wiki",
                       "evidence", "workspace.md", "_index.md">>

\* The steps of create_workspace and of run_setup, in their order: what each of
\* them makes.  "wiki" stands for the directories of the tiers, "evidence" for those
\* of the second loop, "config" for read_config and write_config or ensure_config.
CreateSteps == <<"runtime", "workspaces", "root", "wiki", "evidence",
                 "workspace.md", "_index.md", "config">>
SetupSteps  == <<"runtime", "config", "assets", "asset files">>

Shared == {"runtime", "workspaces", "assets", "asset files"}
Files  == {"workspace.md", "_index.md", "asset files"}
OfOne  == {"root", "wiki", "evidence", "workspace.md", "_index.md"}

Path(name, part) == <<IF part \in Shared THEN NoName ELSE name, part>>
Whole(name) == \A part \in OfOne : <<name, part>> \in made

\* A command about to take one of its steps; a process that has not begun, and one
\* whose command has ended.
Job(task, name, step) == [task |-> task, name |-> name, step |-> step, at |-> "probe"]
Idle  == Job("none", NoName, 0)
Ended == Job("ended", NoName, 0)

Steps(job) == IF job.task = "create" THEN CreateSteps ELSE SetupSteps
AtWork(p)  == work[p].task \in {"create", "setup"}
Doing(p)    == Steps(work[p])[work[p].step]
Target(p)  == Path(work[p].name, Doing(p))

\* A runtime directory with these workspaces, the first of them the default.
WorkspacesInit(there, default) ==
    /\ made = {<<n, part>> : n \in there, part \in OfOne}
              \cup (IF there = {} THEN {} ELSE {<<NoName, part>> : part \in {"runtime", "workspaces"}})
    /\ config = [exists |-> there # {}, default |-> default]
    /\ work = [p \in Hands |-> Idle]
    /\ settled = default

EndCommand(p) ==
    /\ work' = [work EXCEPT ![p] = Ended]
    /\ settled' = IF \A q \in Hands \ {p} : ~AtWork(q) THEN config'.default ELSE settled

Goto(p, at) == work' = [work EXCEPT ![p].at = at] /\ UNCHANGED settled

NextStep(p) ==
    IF work[p].step = Len(Steps(work[p])) THEN EndCommand(p)
    ELSE /\ work' = [work EXCEPT ![p].step = @ + 1, ![p].at = "probe"]
         /\ UNCHANGED settled

\* is_safe_workspace_name.
Safe(name) == name \in Names

\* create_workspace, up to its first write: the name is safe, and no root is there.
StartCreate(p, n) ==
    /\ work[p] = Idle
    /\ Safe(n) /\ <<n, "root">> \notin made
    /\ work' = [work EXCEPT ![p] = Job("create", n, 1)]
    /\ UNCHANGED <<made, config, settled>>

RefuseCreate(p, n) ==
    /\ work[p] = Idle
    /\ ~Safe(n) \/ <<n, "root">> \in made
    /\ UNCHANGED <<made, config>> /\ EndCommand(p)

StartSetup(p) ==
    /\ work[p] = Idle
    /\ work' = [work EXCEPT ![p] = Job("setup", NoName, 1)]
    /\ UNCHANGED <<made, config, settled>>

\* ensure_directory_mode and mkdir_all look first and create what they missed.
Probe(p) ==
    /\ AtWork(p) /\ Doing(p) \notin Files \cup {"config"} /\ work[p].at = "probe"
    /\ UNCHANGED <<made, config>>
    /\ IF Target(p) \in made THEN NextStep(p) ELSE Goto(p, "make")

\* create_dir fails if another process was faster, and the command with it.
MakeDirectory(p) ==
    /\ AtWork(p) /\ work[p].at = "make"
    /\ made' = made \cup {Target(p)} /\ UNCHANGED config
    /\ IF Target(p) \in made THEN EndCommand(p) ELSE NextStep(p)

\* write_file and write_asset replace what is there.
WriteFile(p) ==
    /\ AtWork(p) /\ Doing(p) \in Files
    /\ made' = made \cup {Target(p)} /\ UNCHANGED config
    /\ NextStep(p)

\* Mutant: setup writes a new config.yml whether there is one or not.
LookAtConfig_Always(p) ==
    /\ AtWork(p) /\ Doing(p) = "config" /\ work[p].at = "probe"
    /\ UNCHANGED <<made, config>>
    /\ IF work[p].task = "create" /\ config.default # NoName
       THEN NextStep(p) ELSE Goto(p, "cut")

\* A create leaves a default alone, a setup leaves any config.yml alone.
LookAtConfig(p) ==
    /\ AtWork(p) /\ Doing(p) = "config" /\ work[p].at = "probe"
    /\ UNCHANGED <<made, config>>
    /\ IF \/ work[p].task = "create" /\ config.default # NoName
          \/ work[p].task = "setup" /\ config.exists
       THEN NextStep(p) ELSE Goto(p, "cut")

\* write_config: fs::write opens the file empty ...
CutConfig(p) ==
    /\ AtWork(p) /\ work[p].at = "cut"
    /\ config' = [exists |-> TRUE, default |-> NoName]
    /\ Goto(p, "write") /\ UNCHANGED made

\* ... and writes from its start: what a setup writes is the first line only, the
\* same in every config.yml, so it leaves a default standing that is named by then.
WriteConfig(p) ==
    /\ AtWork(p) /\ work[p].at = "write"
    /\ config' = IF work[p].task = "create" THEN [config EXCEPT !.default = work[p].name]
                 ELSE config
    /\ NextStep(p) /\ UNCHANGED made

\* Any step may fail, and the process may die between two.
GiveUp(p) == AtWork(p) /\ UNCHANGED <<made, config>> /\ EndCommand(p)

HandSteps(p) ==
    \/ \E n \in Names \cup Unsafe : StartCreate(p, n) \/ RefuseCreate(p, n)
    \/ StartSetup(p) \/ Probe(p) \/ MakeDirectory(p) \/ WriteFile(p)
    \/ LookAtConfig(p) \/ CutConfig(p) \/ WriteConfig(p)

WorkspacesNext == \E p \in Hands : HandSteps(p) \/ GiveUp(p)

\* The runtime directory on its own, empty or set up before.
WorkspacesSpec ==
    /\ WorkspacesInit({}, NoName) \/ \E n \in Names : WorkspacesInit(Names, n)
    /\ [][WorkspacesNext]_workspacesVars

-----------------------------------------------------------------------------
(* What the other commands ask of the runtime directory *)

\* canonical_existing_directory, of the directory that holds the workspaces.
Rooted == <<NoName, "workspaces">> \in made

\* validate_workspace: a safe name, and a directory of that name.
Validates(name) == Safe(name) /\ Rooted /\ <<name, "root">> \in made

\* resolve_current_workspace: the default, if there is one.
Current == IF config.default # NoName /\ Validates(config.default)
           THEN config.default ELSE NoName

\* resolve_workspace, of the command line and of the gateway: the workspace named,
\* or the current one.
ResolveWorkspace(name) == LET n == IF name = NoName THEN Current ELSE name
                          IN  IF Validates(n) THEN n ELSE NoName

-----------------------------------------------------------------------------
(* Properties *)

\* A workspace that config.yml names as the default, which every command without
\* a workspace of its own then works in, has all its directories and files, however
\* many commands made it at once, failed on one another or died (create_workspace).
DefaultIsWhole == config.default # NoName => Whole(config.default)

\* The default there is when nobody is at work is never lost, not for a moment: no
\* later create takes it over, and no later setup writes an empty config.yml over it
\* (create_workspace, ensure_config).  One that is set while a setup is at work may
\* be lost.
SettledDefaultStays == settled # NoName => config.default = settled
=============================================================================
