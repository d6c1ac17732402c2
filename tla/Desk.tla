---------------------------------- MODULE Desk ----------------------------------
(***************************************************************************)
(* Which study a tool call works on (mcp/helpers.py), and the stores that      *)
(* answer that: the chats' bindings (session/chat_binding.py), the projects of   *)
(* the workspace folders (session/project_registry.py) and the study files.     *)
(*                                                                         *)
(* A call carries its chat and, if the host sent one, its workspace; hosts edit  *)
(* projects for a person.  Calls run side by side in several processes and may   *)
(* die anywhere; a lock goes with its holder.  Calls that only read, that carry  *)
(* no chat, or that an agent makes bind nothing; they and evaluation runs are    *)
(* left out.  The races inside one save of a study are StudyFile's.             *)
(***************************************************************************)
EXTENDS Integers, Sequences, FiniteSets, FiniteSetsExt

CONSTANTS
    Chats, Studies, Dirs, Calls, Hosts,
    Known,              \* the studies that have a file at the start
    Kinds,              \* of tool calls
    None,
    MaxProjects,        \* bound: projects ever created
    MaxBindings,        \* compaction starts above this many (_COMPACT_THRESHOLD)
    MaxCalls, MaxEdits, MaxKills      \* bounds

VARIABLES
    study,              \* the study files
    binding,            \* chat -> the study it is bound to, and how it was chosen
    project,            \* project id -> project.json, or None
    lock,               \* who holds the lock of the bindings, of the registry
    call,               \* tool calls under way
    ensuring,           \* ensure_project under way, by a call or a host
    seen,               \* what a host last read of a project
    confirmed,          \* project and study pairs a person ever confirmed
    spent               \* how much of each bound is used

vars == <<study, binding, project, lock, call, ensuring, seen, confirmed, spent>>

ProjectIds == 1 .. MaxProjects
Clients == Calls \union Hosts
Rules == {"named", "chat_binding", "auto_create", "project_default", "single_study", "start", "rebind"}

StudyFiles == [saved : BOOLEAN, archived : BOOLEAN, home : Dirs \union {None}]
Bindings == [study : Studies \union {None}, by : Rules \union {None}]
Unbound == [study |-> None, by |-> None]

ProjectFiles == [root : Dirs, aliases : SUBSET Dirs, title : {"fallback", "user"},
                 studies : [Studies -> {"no", "migration", "auto", "user"}],
                 default : Studies \union {None}, confirmed : BOOLEAN, revision : Nat]

ASSUME DeskAssumption ==
    /\ None \notin Chats \union Studies \union Dirs \union Calls \union Hosts
    /\ None \notin Rules /\ None \notin ProjectIds /\ None \notin ProjectFiles
    /\ Calls \cap Hosts = {}
    /\ Known \subseteq Studies
    /\ {MaxProjects, MaxBindings, MaxCalls, MaxEdits, MaxKills} \subseteq Nat

Idle == [kind |-> "idle", chat |-> None, named |-> None, ws |-> None, pid |-> None, study |-> None,
         rule |-> None, todo |-> << >>, loaded |-> None]

Init ==
    /\ study \in {f \in [Studies -> StudyFiles] : \A s \in Studies :
                    /\ f[s].saved = (s \in Known) /\ ~f[s].archived
                    /\ ~f[s].saved => f[s].home = None}
    /\ binding = [ch \in Chats |-> Unbound]
    /\ project = [p \in ProjectIds |-> None]
    /\ lock = [l \in {"bindings", "registry"} |-> None]
    /\ call = [c \in Calls |-> Idle]
    /\ ensuring = [x \in Clients |-> None]
    /\ seen = [h \in Hosts |-> None]
    /\ confirmed = {}
    /\ spent = [calls |-> 0, edits |-> 0, kills |-> 0]

Spend(what, limit) ==
    /\ spent[what] < limit
    /\ spent' = [spent EXCEPT ![what] = @ + 1]

\* Altered form: a lock that keeps nobody out, as on a file system without locks.
FreeForAll(l) == TRUE
Free(l) == lock[l] = None

Visible(s) == study[s].saved /\ ~study[s].archived

-----------------------------------------------------------------------------
(* The project registry: each file is read and rewritten under its own lock.   *)

Exists(p) == project[p] # None
Roots(p) == {project[p].root} \union project[p].aliases

\* The oldest project of a folder.
FindByDir(d) ==
    LET ps == {p \in ProjectIds : Exists(p) /\ d \in Roots(p)}
    IN IF ps = {} THEN None ELSE Min(ps)

\* Altered form: a default counts although nobody confirmed it.
ConfirmedOrSuggested(rec) == rec.default # None
IsConfirmed(rec) == rec.default # None /\ rec.confirmed

\* Altered form: linking a study is not counted as a change.
WriteUncounted(p, rec) ==
    project' = [project EXCEPT ![p] =
        [rec EXCEPT !.revision = IF rec.studies = project[p].studies THEN @ + 1 ELSE @]]

\* Writing counts as a revision; an edit that changes nothing writes nothing.
Write(p, rec) ==
    project' = IF rec = project[p] THEN project ELSE [project EXCEPT ![p] = [rec EXCEPT !.revision = @ + 1]]

NoLinks == [s \in Studies |-> "no"]

\* A new project holds the visible studies of its folder; one of them is suggested as its default.
Created(d) ==
    LET here == {s \in Studies : Visible(s) /\ study[s].home = d}
    IN {[root |-> d, aliases |-> {}, title |-> "fallback", default |-> s, confirmed |-> FALSE, revision |-> 1,
         studies |-> [x \in Studies |-> IF x \in here THEN "migration" ELSE "no"]] :
        s \in IF here = {} THEN {None} ELSE here}

Attached(rec, d) ==
    [rec EXCEPT !.root = d, !.aliases = (rec.aliases \union {rec.root}) \ {d}]

Linked(rec, s, by) == [rec EXCEPT !.studies[s] = IF @ = "no" THEN by ELSE @]

\* Altered form: the suggestion replaces the default.
SuggestedOver(rec, s) == [rec EXCEPT !.default = s, !.confirmed = FALSE]
Suggested(rec, s) == IF rec.default = None THEN [rec EXCEPT !.default = s, !.confirmed = FALSE] ELSE rec

Unlinked(rec, s) ==
    IF rec.default = s
    THEN [rec EXCEPT !.studies[s] = "no", !.default = None, !.confirmed = FALSE]
    ELSE [rec EXCEPT !.studies[s] = "no"]

\* ensure: the project of a folder, made or moved there when it has none, under the registry's lock.
StartEnsure(x, d, attach) == ensuring' = [ensuring EXCEPT ![x] = [dir |-> d, attach |-> attach, found |-> None, locked |-> FALSE]]

EnsureLook(x) ==
    /\ ensuring[x] # None /\ ~ensuring[x].locked
    /\ Free("registry")
    /\ lock' = [lock EXCEPT !["registry"] = x]
    /\ ensuring' = [ensuring EXCEPT ![x].locked = TRUE, ![x].found = FindByDir(ensuring[x].dir)]
    /\ UNCHANGED <<study, binding, project, call, seen, confirmed, spent>>

\* What ensure comes to, and what the one who asked makes of the project found.
EnsureDone(x, p, rec) ==
    /\ lock' = [lock EXCEPT !["registry"] = None]
    /\ ensuring' = [ensuring EXCEPT ![x] = None]
    /\ IF x \in Calls
       THEN /\ call' = [call EXCEPT ![x].pid = p,
                    ![x].todo = IF Exists(p) THEN @ ELSE <<"link", "relabel">> \o Tail(@)]
            /\ UNCHANGED seen
       ELSE /\ seen' = [seen EXCEPT ![x] = [id |-> p, rec |-> rec]]
            /\ UNCHANGED call

EnsureFinds(x) ==
    LET e == ensuring[x]
    IN /\ e # None /\ e.locked /\ e.found # None
       /\ IF e.attach \in {None, e.found}
          THEN EnsureDone(x, e.found, project[e.found])
          ELSE /\ lock' = [lock EXCEPT !["registry"] = None]
               /\ ensuring' = [ensuring EXCEPT ![x] = None]
               /\ UNCHANGED <<call, seen>>
       /\ UNCHANGED <<study, binding, project, confirmed, spent>>

EnsureCreates(x) ==
    LET e == ensuring[x]
        unused == {p \in ProjectIds : ~Exists(p)}
    IN /\ e # None /\ e.locked /\ e.found = None /\ e.attach = None
       /\ unused # {}
       /\ \E rec \in Created(e.dir) : project' = [project EXCEPT ![Min(unused)] = rec]
       /\ EnsureDone(x, Min(unused), project'[Min(unused)])
       /\ UNCHANGED <<study, binding, confirmed, spent>>

EnsureAttaches(x) ==
    LET e == ensuring[x]
    IN /\ e # None /\ e.locked /\ e.found = None /\ e.attach # None
       /\ Write(e.attach, Attached(project[e.attach], e.dir))
       /\ EnsureDone(x, e.attach, project'[e.attach])
       /\ UNCHANGED <<study, binding, confirmed, spent>>

Ensure(x) == EnsureLook(x) \/ EnsureFinds(x) \/ EnsureCreates(x) \/ EnsureAttaches(x)

-----------------------------------------------------------------------------
(* Resolving the study of a call: named, bound, created, default, the only one. *)

Begin(c, kind, ch, s, d, p) ==
    /\ call[c] = Idle
    /\ Spend("calls", MaxCalls)
    /\ p # None => Exists(p)
    /\ kind \in {"delineate", "start", "rebind"} => s # None
    /\ call' = [call EXCEPT ![c] = [Idle EXCEPT !.kind = kind, !.chat = ch, !.named = s, !.ws = d, !.pid = p,
            !.todo = CASE kind \in {"start", "rebind"} -> <<kind>>
                       [] kind = "delineate" \/ s = None -> <<"bound">>
                       [] OTHER -> <<"named">>]]
    /\ UNCHANGED <<study, binding, project, lock, ensuring, seen, confirmed>>

At(c, task) == call[c].todo # << >> /\ Head(call[c].todo) = task /\ ensuring[c] = None

Resolve(c, s, rule, todo) ==
    call' = [call EXCEPT ![c].study = s, ![c].rule = rule, ![c].todo = todo, ![c].named = None]
Refuse(c) == call' = [call EXCEPT ![c] = Idle]
Proceed(c) ==
    call' = [call EXCEPT ![c] =
        IF Tail(call[c].todo) = << >> THEN Idle ELSE [call[c] EXCEPT !.todo = Tail(@)]]

\* Only a study that exists is bound to the chat.
ResolveNamed(c) ==
    LET s == call[c].named
    IN /\ At(c, "named")
       /\ Resolve(c, s, "named", IF study[s].saved THEN <<"bind", "link", "work">> ELSE <<"work">>)
       /\ UNCHANGED <<study, binding, project, lock, ensuring, seen, confirmed, spent>>

\* An unbound delineation takes the id its gauge or point suggests.  A tool that
\* records is refused; the others look further.
ResolveBound(c) ==
    LET s == binding[call[c].chat].study
    IN /\ At(c, "bound")
       /\ IF s # None THEN Resolve(c, s, "chat_binding", <<"home", "work">>)
          ELSE IF call[c].kind = "delineate"
          THEN Resolve(c, call[c].named, "auto_create", <<"home", "bind", "link", "work">>)
          ELSE IF call[c].kind = "analyse" THEN call' = [call EXCEPT ![c].todo = <<"default">>]
          ELSE Refuse(c)
       /\ UNCHANGED <<study, binding, project, lock, ensuring, seen, confirmed, spent>>

ProjectOf(c) == IF call[c].pid # None THEN call[c].pid
                ELSE IF call[c].ws # None THEN FindByDir(call[c].ws) ELSE None

\* Only a default that a person confirmed, is a member and can be seen.
ResolveDefault(c) ==
    LET p == ProjectOf(c)
        found == /\ p # None /\ IsConfirmed(project[p])
                 /\ project[p].studies[project[p].default] # "no"
                 /\ Visible(project[p].default)
    IN /\ At(c, "default")
       /\ IF found THEN Resolve(c, project[p].default, "project_default", <<"bind", "link", "home", "work">>)
          ELSE call' = [call EXCEPT ![c].todo = <<"single">>]
       /\ UNCHANGED <<study, binding, project, lock, ensuring, seen, confirmed, spent>>

ResolveSingle(c) ==
    LET here == {s \in Studies : Visible(s) /\ study[s].home = call[c].ws}
    IN /\ At(c, "single")
       /\ IF call[c].ws # None /\ Cardinality(here) = 1
          THEN \E s \in here : Resolve(c, s, "single_study", <<"bind", "link", "home", "work">>)
          ELSE Refuse(c)
       /\ UNCHANGED <<study, binding, project, lock, ensuring, seen, confirmed, spent>>

-----------------------------------------------------------------------------
(* Binding the chat, and putting the study into the chat's project.           *)

\* A compaction keeps only the chats whose study has a file.
Compacted(b) ==
    IF Cardinality({ch \in Chats : b[ch] # Unbound}) <= MaxBindings THEN b
    ELSE [ch \in Chats |-> IF b[ch] # Unbound /\ study[b[ch].study].saved THEN b[ch] ELSE Unbound]

BindLoad(c) ==
    /\ At(c, "bind")
    /\ Free("bindings")
    /\ IF binding[call[c].chat].study = call[c].study
       THEN /\ Proceed(c)
            /\ UNCHANGED lock
       ELSE /\ call' = [call EXCEPT ![c].loaded = binding, ![c].todo = <<"save">> \o Tail(@)]
            /\ lock' = [lock EXCEPT !["bindings"] = c]
    /\ UNCHANGED <<study, binding, project, ensuring, seen, confirmed, spent>>

BindSave(c) ==
    /\ At(c, "save")
    /\ binding' = Compacted([call[c].loaded EXCEPT
                    ![call[c].chat] = [study |-> call[c].study, by |-> call[c].rule]])
    /\ lock' = [lock EXCEPT !["bindings"] = None]
    /\ call' = [call EXCEPT ![c].loaded = None, ![c].todo = Tail(@)]
    /\ UNCHANGED <<study, project, ensuring, seen, confirmed, spent>>

\* The call names its project, or has a folder, whose project is made if need be.
FindProject(c) ==
    /\ At(c, "link") /\ call[c].pid = None
    /\ IF call[c].ws # None
       THEN /\ StartEnsure(c, call[c].ws, None)
            /\ UNCHANGED call
       ELSE /\ Proceed(c)
            /\ UNCHANGED ensuring
    /\ UNCHANGED <<study, binding, project, lock, seen, confirmed, spent>>

Link(c) ==
    /\ At(c, "link") /\ call[c].pid # None
    /\ Write(call[c].pid, Suggested(Linked(project[call[c].pid], call[c].study, "auto"), call[c].study))
    /\ Proceed(c)
    /\ UNCHANGED <<study, binding, lock, ensuring, seen, confirmed, spent>>

\* A study that came in with the project this bind made is the chat's, not the migration's.
Relabel(c) ==
    LET rec == project[call[c].pid]
        s == call[c].study
    IN /\ At(c, "relabel")
       /\ IF rec.studies[s] # "no"
          THEN Write(call[c].pid, [rec EXCEPT !.studies[s] = "auto"])
          ELSE UNCHANGED project
       /\ Proceed(c)
       /\ UNCHANGED <<study, binding, lock, ensuring, seen, confirmed, spent>>

-----------------------------------------------------------------------------
(* What the call then does to the study.                                      *)

Saved(s, home) == study' = [study EXCEPT ![s].saved = TRUE, ![s].home = home]

\* A study without a folder gets the call's, and is saved with it.
Home(c) ==
    /\ At(c, "home")
    /\ IF study[call[c].study].home = None /\ call[c].ws # None
       THEN Saved(call[c].study, call[c].ws)
       ELSE UNCHANGED study
    /\ Proceed(c)
    /\ UNCHANGED <<binding, project, lock, ensuring, seen, confirmed, spent>>

\* The tool saves its result, archives the study, or fails.  A tool that records
\* fails when the study has no file.
Work(c) ==
    LET s == call[c].study
    IN /\ At(c, "work")
       /\ \/ /\ call[c].kind = "archive" /\ study[s].saved
             /\ study' = [study EXCEPT ![s].archived = TRUE]
          \/ /\ call[c].kind \in {"analyse", "delineate"}
             /\ Saved(s, study[s].home)
          \/ UNCHANGED study
       /\ Proceed(c)
       /\ UNCHANGED <<binding, project, lock, ensuring, seen, confirmed, spent>>

\* A study of another folder is neither moved nor bound; nor is a new one bound
\* when the call has no folder.
Start(c) ==
    LET s == call[c].named
        ws == call[c].ws
        elsewhere == study[s].saved /\ ws \notin {None, study[s].home} /\ study[s].home # None
    IN /\ At(c, "start")
       /\ \E given \in {None, ws} : Saved(s, IF given = None \/ elsewhere THEN study[s].home ELSE given)
       /\ IF ~elsewhere /\ (study[s].saved \/ ws # None)
          THEN Resolve(c, s, "start", <<"bind", "link">>)
          ELSE Refuse(c)
       /\ UNCHANGED <<binding, project, lock, ensuring, seen, confirmed, spent>>

Rebind(c) ==
    LET s == call[c].named
    IN /\ At(c, "rebind")
       /\ \E hidden \in BOOLEAN :
            IF study[s].saved /\ (hidden \/ ~study[s].archived)
            THEN Resolve(c, s, "rebind", <<"bind", "link">>)
            ELSE Refuse(c)
       /\ UNCHANGED <<study, binding, project, lock, ensuring, seen, confirmed, spent>>

\* Its process dies; the locks it held are free again.
Kill(c) ==
    /\ call[c] # Idle
    /\ Spend("kills", MaxKills)
    /\ Refuse(c)
    /\ ensuring' = [ensuring EXCEPT ![c] = None]
    /\ lock' = [l \in DOMAIN lock |-> IF lock[l] = c THEN None ELSE lock[l]]
    /\ UNCHANGED <<study, binding, project, seen, confirmed>>

-----------------------------------------------------------------------------
(* What hosts do for a person.                                               *)

\* Looking again later is the same as looking for the first time then.
Look(h, p) ==
    /\ seen[h] = None /\ Exists(p)
    /\ seen' = [seen EXCEPT ![h] = [id |-> p, rec |-> project[p]]]
    /\ UNCHANGED <<study, binding, project, lock, call, ensuring, confirmed, spent>>

Renamed(rec) == {[rec EXCEPT !.title = "user"]}
Cleared(rec) == {[rec EXCEPT !.default = None, !.confirmed = FALSE]}
Defaulted(rec) ==
    {[Linked(rec, s, "user") EXCEPT !.default = s, !.confirmed = TRUE] : s \in {x \in Studies : study[x].saved}}
Joined(rec) == {Linked(rec, s, "user") : s \in {x \in Studies : study[x].saved}}
Removed(rec) == {Unlinked(rec, s) : s \in {x \in Studies : rec.studies[x] # "no"}}

\* An edit may name the revision the host last saw.  Refused, it hands back the current one.
Edit(h, p) ==
    /\ Exists(p)
    /\ Spend("edits", MaxEdits)
    /\ \/ /\ \E rec \in Renamed(project[p]) \union Cleared(project[p]) \union Defaulted(project[p])
                        \union Joined(project[p]) \union Removed(project[p]) :
                /\ Write(p, rec)
                /\ confirmed' = IF rec.confirmed THEN confirmed \union {<<p, rec.default>>} ELSE confirmed
          /\ seen' = [seen EXCEPT ![h] = [id |-> p, rec |-> project'[p]]]
       \/ /\ seen[h] # None /\ seen[h].id = p
          /\ seen[h].rec.revision # project[p].revision
          /\ seen' = [seen EXCEPT ![h] = [id |-> p, rec |-> project[p]]]
          /\ UNCHANGED <<project, confirmed>>
    /\ UNCHANGED <<study, binding, lock, call, ensuring>>

HostEnsure(h, d, attach) ==
    /\ ensuring[h] = None
    /\ Spend("edits", MaxEdits)
    /\ attach # None => Exists(attach)
    /\ StartEnsure(h, d, attach)
    /\ UNCHANGED <<study, binding, project, lock, call, seen, confirmed>>

-----------------------------------------------------------------------------
Step(c) ==
    \/ ResolveNamed(c) \/ ResolveBound(c) \/ ResolveDefault(c) \/ ResolveSingle(c)
    \/ BindLoad(c) \/ BindSave(c) \/ FindProject(c) \/ Link(c) \/ Relabel(c)
    \/ Home(c) \/ Work(c) \/ Start(c) \/ Rebind(c)

Next ==
    \/ \E c \in Calls, kind \in Kinds, ch \in Chats, s \in Studies \union {None},
          d \in Dirs \union {None}, p \in ProjectIds \union {None} : Begin(c, kind, ch, s, d, p)
    \/ \E c \in Calls : Step(c) \/ Kill(c)
    \/ \E x \in Clients : Ensure(x)
    \/ \E h \in Hosts, p \in ProjectIds : Look(h, p) \/ Edit(h, p)
    \/ \E h \in Hosts, d \in Dirs, attach \in ProjectIds \union {None} : HostEnsure(h, d, attach)

Spec == Init /\ [][Next]_vars

-----------------------------------------------------------------------------
(* Properties                                                               *)

\* The values the stores and the calls take (the schemas of study, binding and project files).
TypeOK ==
    /\ study \in [Studies -> StudyFiles]
    /\ binding \in [Chats -> Bindings]
    /\ project \in [ProjectIds -> ProjectFiles \union {None}]
    /\ lock \in [{"bindings", "registry"} -> Clients \union {None}]

\* However many windows and chats ask for the project of a folder at once, and however
\* projects move, a folder belongs to one project (ProjectRegistry.ensure, find_by_dir).
OneProjectPerDir ==
    \A d \in Dirs : Cardinality({p \in ProjectIds : Exists(p) /\ d \in Roots(p)}) <= 1

\* A chat loses or changes its study only through a call of its own, or, when bindings
\* are compacted, because its study has no file (ChatBindingStore.bind).  The call's own
\* study may be such a one: then the chat loses what it had for nothing.
OthersKeepTheirs ==
    [][\A ch \in Chats : binding'[ch] # binding[ch] =>
        \/ binding'[ch] = Unbound /\ ~study[binding[ch].study].saved
        \/ \E c \in Calls :
             /\ At(c, "save") /\ call[c].chat = ch
             /\ \/ binding'[ch].study = call[c].study
                \/ binding'[ch] = Unbound /\ ~study[call[c].study].saved]_vars

\* A host that still sees the current revision sees the current project: an edit that
\* names it undoes nothing its person has not been shown (mutate, expected_revision).
RevisionTells ==
    \A h \in Hosts : seen[h] # None =>
        /\ seen[h].rec.revision <= project[seen[h].id].revision
        /\ seen[h].rec.revision = project[seen[h].id].revision => seen[h].rec = project[seen[h].id]

\* Chats that bring studies into a project never change the default a person chose (note_study_bound).
TheirDefaultStays ==
    [][\A p \in ProjectIds : Exists(p) /\ project[p].confirmed /\ project'[p].default # project[p].default
        => spent'.edits > spent.edits]_vars

\* No chat is put on a project's default study that no person ever confirmed,
\* whatever was suggested for it on the way (confirmed_default).
InferredIsConfirmed ==
    \A ch \in Chats : binding[ch].by = "project_default" =>
        \E p \in ProjectIds : <<p, binding[ch].study>> \in confirmed

\* Refuted.  helpers.py:247-249 of the resolver of recording tools: "creation closed: an id
\* naming no saved study is a STUDY_NOT_FOUND refusal carrying candidates, never an empty study."
RecordingCreatesNothing ==
    [][\A c \in Calls, s \in Studies :
        call[c].kind = "archive" /\ call'[c] # call[c] /\ study'[s].saved => study[s].saved]_vars
=============================================================================
