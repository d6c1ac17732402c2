------------------------------ MODULE Desk_proofs ------------------------------
(***************************************************************************)
(* Proofs about Desk, for any number of chats, calls, hosts, studies, folders   *)
(* and projects.  A folder has one project because who finds none for it keeps   *)
(* the registry's lock until it has made one (EnsuringSound); a chat keeps its   *)
(* study because who rewrites the bindings read them under the lock (CallOk);     *)
(* a project's default is one that a person chose as long as it says so          *)
(* (ProjectsSound).                                                          *)
(***************************************************************************)
EXTENDS Desk, TLAPS, SequenceTheorems, FiniteSetTheorems, WellFoundedInduction

-----------------------------------------------------------------------------
(* The inductive invariant *)

\* What a call may have left to do.  "save", the second half of a bind, is only ever next.
Later == {"start", "rebind", "bound", "named", "bind", "link", "relabel", "work", "home", "default", "single"}
Tasks == Later \union {"save"}

Plans == Seq(Tasks)
Loads == [Chats -> Bindings] \union {None}

CallRecs == [kind : Kinds \union {"idle"}, chat : Chats \union {None}, named : Studies \union {None},
             ws : Dirs \union {None}, pid : ProjectIds \union {None}, study : Studies \union {None},
             rule : Rules \union {None}, todo : Plans, loaded : Loads]

EnsureRecs == [dir : Dirs, attach : ProjectIds \union {None}, found : ProjectIds \union {None}, locked : BOOLEAN]

\* A person confirmed the study as a default.
Vetted(s) == \E p \in ProjectIds : <<p, s>> \in confirmed

\* Between the halves of a bind the call has the lock, and has what the file holds.
CallOk(c, k) ==
    /\ k \in CallRecs
    /\ k.todo # << >> => k.chat \in Chats /\ Tail(k.todo) \in Seq(Later)
    /\ k.todo # << >> /\ Head(k.todo) = "save" => lock["bindings"] = c /\ k.loaded = binding
    /\ k.pid # None => Exists(k.pid)
    /\ k.rule = "project_default" => Vetted(k.study)

CallsSound ==
    /\ call = [c \in Calls |-> call[c]]
    /\ \A c \in Calls : CallOk(c, call[c])

ProjectsSound ==
    /\ project \in [ProjectIds -> ProjectFiles \union {None}]
    /\ \A p \in ProjectIds : Exists(p) /\ project[p].confirmed =>
          project[p].default # None /\ <<p, project[p].default>> \in confirmed

OneOwner == \A p, q \in ProjectIds, d \in Dirs :
    Exists(p) /\ Exists(q) /\ d \in Roots(p) /\ d \in Roots(q) => p = q

EnsuringOk(x, e) ==
    /\ e \in EnsureRecs
    /\ e.attach # None => Exists(e.attach)
    /\ e.found # None => Exists(e.found)
    /\ e.locked => lock["registry"] = x
    /\ e.locked /\ e.found = None => \A p \in ProjectIds : Exists(p) => e.dir \notin Roots(p)

EnsuringSound ==
    /\ ensuring = [x \in Clients |-> ensuring[x]]
    /\ \A x \in Clients : ensuring[x] # None => EnsuringOk(x, ensuring[x])
    /\ \A c \in Calls : ensuring[c] # None => call[c].todo # << >>

SeenOk(v) ==
    /\ v \in [id : ProjectIds, rec : ProjectFiles]
    /\ Exists(v.id)
    /\ v.rec.revision <= project[v.id].revision
    /\ v.rec.revision = project[v.id].revision => v.rec = project[v.id]

SeenSound ==
    /\ seen = [h \in Hosts |-> seen[h]]
    /\ \A h \in Hosts : seen[h] # None => SeenOk(seen[h])

BindingsSound ==
    /\ binding \in [Chats -> Bindings]
    /\ \A ch \in Chats : binding[ch].by = "project_default" => Vetted(binding[ch].study)

Counters ==
    /\ spent \in [{"calls", "edits", "kills"} -> Nat]
    /\ lock \in [{"bindings", "registry"} -> Clients \union {None}]

DeskInv ==
    /\ CallsSound /\ ProjectsSound /\ OneOwner /\ EnsuringSound
    /\ SeenSound /\ BindingsSound /\ Counters

-----------------------------------------------------------------------------
(* Helpers *)

LEMMA NoClient ==
  None \notin Clients /\ None \notin ProjectIds /\ None \notin ProjectFiles /\ None \notin Rules
BY DeskAssumption DEF Clients

\* The oldest project of a folder is one of them.
LEMMA MinIsIn ==
  ASSUME NEW S \in SUBSET ProjectIds, S # {}
  PROVE  Min(S) \in S /\ \A y \in S : Min(S) <= y
<1>1. S \subseteq Nat
  BY DEF ProjectIds
<1>2. PICK x \in S : \A y \in S : ~(<<y, x>> \in OpToRel(<, Nat))
  BY <1>1, WFMin, NatLessThanWellFounded
<1> DEFINE R == {ss \in Nat \X Nat : ss[1] < ss[2]}
<1>3. OpToRel(<, Nat) = R
  BY Zenon DEF OpToRel
<1>4. \A y \in S : <<y, x>> \notin R
  BY <1>2, <1>3
<1>5. ASSUME NEW y \in S
      PROVE  x <= y
  <2>1. x \in Nat /\ y \in Nat /\ <<y, x>> \notin R
    BY <1>1, <1>4
  <2>2. ~(y < x)
    BY <2>1
  <2> QED
    BY <2>1, <2>2
<1> QED
  BY <1>5 DEF Min

LEMMA FindByDirFinds ==
  ASSUME NEW d
  PROVE  /\ FindByDir(d) \in ProjectIds \union {None}
         /\ FindByDir(d) # None => Exists(FindByDir(d))
         /\ FindByDir(d) = None => \A p \in ProjectIds : Exists(p) => d \notin Roots(p)
<1> DEFINE ps == {p \in ProjectIds : Exists(p) /\ d \in Roots(p)}
<1>1. ps # {} => Min(ps) \in ps
  BY MinIsIn
<1>2. FindByDir(d) = IF ps = {} THEN None ELSE Min(ps)
  BY DEF FindByDir
<1>3. None \notin ProjectIds
  BY NoClient
<1> QED
  BY <1>1, <1>2, <1>3

\* Plans without the second half of a bind.
LEMMA ShortPlans ==
  /\ << >> \in Seq(Later)
  /\ \A t \in Later : <<t>> \in Seq(Later)
  /\ \A t, u \in Later : <<t, u>> \in Seq(Later)
  /\ \A t, u, v \in Later : <<t, u, v>> \in Seq(Later)
  /\ \A t, u, v, w \in Later : <<t, u, v, w>> \in Seq(Later)
OBVIOUS

LEMMA PlainPlan ==
  ASSUME NEW s \in Seq(Later)
  PROVE  /\ s \in Seq(Tasks)
         /\ s # << >> => Tail(s) \in Seq(Later) /\ Head(s) \in Later
<1>1. Later \subseteq Tasks
  BY DEF Tasks
<1>2. s \in Seq(Tasks)
  BY <1>1, SeqMonotonic
<1> QED
  BY <1>2, HeadTailProperties

LEMMA SavePlan ==
  ASSUME NEW s \in Seq(Later)
  PROVE  LET t == <<"save">> \o s IN
         t \in Seq(Tasks) /\ t # << >> /\ Tail(t) = s
<1> DEFINE t == <<"save">> \o s
<1>1. s \in Seq(Tasks) /\ <<"save">> \in Seq(Tasks) /\ Len(<<"save">>) = 1
  BY PlainPlan DEF Tasks
<1>2. /\ t \in Seq(Tasks) /\ Len(t) = 1 + Len(s)
      /\ \A i \in 1..(1 + Len(s)) : t[i] = IF i <= 1 THEN <<"save">>[i] ELSE s[i - 1]
  BY <1>1, ConcatProperties
<1>3. Len(s) \in Nat /\ t # << >>
  BY <1>1, <1>2, LenProperties, EmptySeq
<1> HIDE DEF t
<1>4. /\ Tail(t) \in Seq(Tasks) /\ Len(Tail(t)) = Len(s)
      /\ \A i \in 1..Len(Tail(t)) : Tail(t)[i] = t[i+1]
  BY <1>2, <1>3, HeadTailProperties
<1>5. \A i \in 1..Len(s) : Tail(t)[i] = s[i]
  <2> SUFFICES ASSUME NEW i \in 1..Len(s) PROVE Tail(t)[i] = s[i]
    OBVIOUS
  <2>1. i + 1 \in 1..(1 + Len(s)) /\ ~(i + 1 <= 1) /\ (i + 1) - 1 = i
    BY <1>3
  <2> QED
    BY <1>2, <1>4, <2>1
<1>6. Tail(t) = s
  BY <1>1, <1>4, <1>5, SeqEqual
<1> QED
  BY <1>2, <1>3, <1>6 DEF t

LEMMA IdleOk ==
  ASSUME NEW c
  PROVE  CallOk(c, Idle)
<1>1. << >> \in Seq(Tasks)
  OBVIOUS
<1>2. Idle \in CallRecs
  BY <1>1 DEF CallRecs, Idle, Plans, Loads
<1>3. Idle.todo = << >> /\ Idle.pid = None /\ Idle.rule = None
  BY DEF Idle
<1>4. None # "project_default"
  BY NoClient DEF Rules
<1> QED
  BY <1>2, <1>3, <1>4 DEF CallOk

LEMMA InitDeskInv == Init => DeskInv
<1> SUFFICES ASSUME Init PROVE DeskInv
  OBVIOUS
<1> USE DEF Init
<1>1. CallsSound
  BY IdleOk DEF CallsSound
<1>2. ProjectsSound /\ OneOwner
  BY DEF ProjectsSound, OneOwner, Exists
<1>3. EnsuringSound /\ SeenSound
  BY DEF EnsuringSound, SeenSound, Clients
<1>4. BindingsSound /\ Counters
  BY NoClient DEF BindingsSound, Bindings, Unbound, Counters, Rules
<1> QED
  BY <1>1, <1>2, <1>3, <1>4 DEF DeskInv

-----------------------------------------------------------------------------
(* Resolving *)

\* What a call is given is what it then has.
LEMMA GivenPlan ==
  ASSUME NEW k \in CallRecs, NEW plan \in Plans
  PROVE  LET n == [k EXCEPT !.todo = plan] IN
         /\ n \in CallRecs
         /\ n.todo = plan /\ n.pid = k.pid /\ n.chat = k.chat /\ n.study = k.study
         /\ n.rule = k.rule /\ n.loaded = k.loaded
BY DEF CallRecs

LEMMA ReplanOk ==
  ASSUME NEW c, NEW k, CallOk(c, k), k.todo # << >>, NEW plan \in Seq(Later)
  PROVE  CallOk(c, [k EXCEPT !.todo = plan])
<1> DEFINE n == [k EXCEPT !.todo = plan]
<1>1. plan \in Plans /\ (plan # << >> => Tail(plan) \in Seq(Later) /\ Head(plan) # "save")
  BY PlainPlan DEF Later, Plans
<1>2. k \in CallRecs /\ k.chat \in Chats
  BY DEF CallOk
<1>3. n \in CallRecs /\ n.todo = plan /\ n.pid = k.pid /\ n.chat = k.chat /\ n.study = k.study /\ n.rule = k.rule
  BY <1>1, <1>2, GivenPlan
<1> HIDE DEF n
<1>4. CallOk(c, n)
  BY <1>1, <1>2, <1>3 DEF CallOk
<1> QED
  BY <1>4 DEF n

LEMMA ProceedOk ==
  ASSUME NEW c, NEW k, CallOk(c, k), k.todo # << >>
  PROVE  CallOk(c, IF Tail(k.todo) = << >> THEN Idle ELSE [k EXCEPT !.todo = Tail(@)])
<1>1. Tail(k.todo) \in Seq(Later)
  BY DEF CallOk
<1> QED
  BY <1>1, IdleOk, ReplanOk

\* A call with its study and its plan.
LEMMA PlannedOk ==
  ASSUME NEW c, NEW k, CallOk(c, k), k.todo # << >>, NEW s \in Studies \union {None},
         NEW rule \in Rules \union {None}, NEW named \in Studies \union {None}, NEW plan \in Seq(Later),
         rule = "project_default" => Vetted(s)
  PROVE  CallOk(c, [k EXCEPT !.study = s, !.rule = rule, !.todo = plan, !.named = named])
<1> DEFINE n == [k EXCEPT !.study = s, !.rule = rule, !.todo = plan, !.named = named]
<1>1. plan \in Plans /\ (plan # << >> => Tail(plan) \in Seq(Later) /\ Head(plan) # "save")
  BY PlainPlan DEF Later, Plans
<1>2. k \in CallRecs /\ k.chat \in Chats /\ (k.pid # None => Exists(k.pid))
  BY DEF CallOk
<1>3. n \in CallRecs /\ n.pid = k.pid /\ n.chat = k.chat /\ n.todo = plan /\ n.study = s /\ n.rule = rule
  BY <1>1, <1>2 DEF CallRecs
<1> HIDE DEF n
<1>4. CallOk(c, n)
  BY <1>1, <1>2, <1>3 DEF CallOk
<1> QED
  BY <1>4 DEF n

\* A step that changes what one call holds, and no store of Desk.
LEMMA CallStep ==
  ASSUME DeskInv, NEW c \in Calls, ensuring[c] = None, NEW k, CallOk(c, k),
         call' = [call EXCEPT ![c] = k],
         UNCHANGED <<binding, project, lock, ensuring, seen, confirmed>>,
         spent' \in [{"calls", "edits", "kills"} -> Nat]
  PROVE  DeskInv'
<1>1. ProjectsSound' /\ OneOwner' /\ SeenSound' /\ BindingsSound' /\ Counters'
  BY DEF DeskInv, ProjectsSound, OneOwner, SeenSound, SeenOk, BindingsSound, Vetted, Counters, Exists, Roots
<1>2. CallsSound'
  <2>1. \A d \in Calls : call'[d] = IF d = c THEN k ELSE call[d]
    BY DEF DeskInv, CallsSound
  <2>2. \A d \in Calls : CallOk(d, call[d])
    BY DEF DeskInv, CallsSound
  <2>3. \A d \in Calls : CallOk(d, call'[d])
    BY <2>1, <2>2
  <2>4. \A d \in Calls : CallOk(d, call[d])'
    BY <2>3 DEF CallOk, Exists, Vetted
  <2>5. call' = [d \in Calls |-> call'[d]]
    BY DEF DeskInv, CallsSound
  <2> QED
    BY <2>4, <2>5 DEF CallsSound
<1>3. EnsuringSound'
  BY DEF DeskInv, EnsuringSound, EnsuringOk, CallsSound, Exists, Roots
<1> QED
  BY <1>1, <1>2, <1>3 DEF DeskInv

LEMMA ProceedStep ==
  ASSUME DeskInv, NEW c \in Calls, ensuring[c] = None, call[c].todo # << >>, Proceed(c),
         UNCHANGED <<binding, project, lock, ensuring, seen, confirmed, spent>>
  PROVE  DeskInv'
<1> DEFINE k == IF Tail(call[c].todo) = << >> THEN Idle ELSE [call[c] EXCEPT !.todo = Tail(@)]
<1>1. call' = [call EXCEPT ![c] = k]
  BY DEF Proceed
<1>2. CallOk(c, k)
  BY ProceedOk DEF DeskInv, CallsSound
<1> HIDE DEF k
<1> QED
  BY <1>1, <1>2, CallStep DEF DeskInv, Counters

LEMMA RefuseStep ==
  ASSUME DeskInv, NEW c \in Calls, ensuring[c] = None, Refuse(c),
         UNCHANGED <<binding, project, lock, ensuring, seen, confirmed, spent>>
  PROVE  DeskInv'
BY IdleOk, CallStep DEF Refuse, DeskInv, Counters

LEMMA ResolveStep ==
  ASSUME DeskInv, NEW c \in Calls, ensuring[c] = None, NEW s \in Studies \union {None}, NEW rule \in Rules,
         NEW plan \in Seq(Later), call[c].todo # << >>, rule = "project_default" => Vetted(s),
         Resolve(c, s, rule, plan),
         UNCHANGED <<binding, project, lock, ensuring, seen, confirmed, spent>>
  PROVE  DeskInv'
<1>1. PICK k : k = [call[c] EXCEPT !.study = s, !.rule = rule, !.todo = plan, !.named = None]
  OBVIOUS
<1>2. CallOk(c, k)
  BY <1>1, PlannedOk DEF DeskInv, CallsSound
<1>3. call' = [call EXCEPT ![c] = k]
  BY <1>1 DEF Resolve, DeskInv, CallsSound
<1> QED
  BY <1>2, <1>3, CallStep DEF DeskInv, Counters

\* The call looks further.
LEMMA ReplanStep ==
  ASSUME DeskInv, NEW c \in Calls, ensuring[c] = None, call[c].todo # << >>, NEW plan \in Seq(Later),
         call' = [call EXCEPT ![c].todo = plan],
         UNCHANGED <<binding, project, lock, ensuring, seen, confirmed, spent>>
  PROVE  DeskInv'
<1> DEFINE k == [call[c] EXCEPT !.todo = plan]
<1>1. call' = [call EXCEPT ![c] = k]
  OBVIOUS
<1>2. CallOk(c, k)
  BY ReplanOk DEF DeskInv, CallsSound
<1> HIDE DEF k
<1> QED
  BY <1>1, <1>2, CallStep DEF DeskInv, Counters

LEMMA BeginStep ==
  ASSUME DeskInv, NEW c \in Calls, NEW kind \in Kinds, NEW ch \in Chats, NEW s \in Studies \union {None},
         NEW d \in Dirs \union {None}, NEW p \in ProjectIds \union {None}, Begin(c, kind, ch, s, d, p)
  PROVE  DeskInv'
<1>1. PICK plan : plan = CASE kind \in {"start", "rebind"} -> <<kind>>
                          [] kind = "delineate" \/ s = None -> <<"bound">>
                          [] OTHER -> <<"named">>
  OBVIOUS
<1>2. PICK k : k = [Idle EXCEPT !.kind = kind, !.chat = ch, !.named = s, !.ws = d, !.pid = p, !.todo = plan]
  OBVIOUS
<1>3. plan \in Seq(Later)
  <2>1. kind \in {"start", "rebind"} => kind \in Later
    BY DEF Later
  <2>2. "bound" \in Later /\ "named" \in Later
    BY DEF Later
  <2> QED
    BY <1>1, <2>1, <2>2, ShortPlans
<1>4. call' = [call EXCEPT ![c] = k] /\ (p # None => Exists(p)) /\ call[c] = Idle
  BY <1>1, <1>2 DEF Begin
<1>5. CallOk(c, k)
  <2>1. plan \in Plans /\ (plan # << >> => Tail(plan) \in Seq(Later) /\ Head(plan) # "save")
    BY <1>3, PlainPlan DEF Later, Plans
  <2>2. k = [kind |-> kind, chat |-> ch, named |-> s, ws |-> d, pid |-> p, study |-> None,
             rule |-> None, todo |-> plan, loaded |-> None]
    BY <1>2 DEF Idle
  <2>3. k \in CallRecs
    BY <2>1, <2>2 DEF CallRecs, Loads
  <2>4. k.todo = plan /\ k.chat = ch /\ k.pid = p /\ k.rule # "project_default"
    BY <2>2, NoClient DEF Rules
  <2> QED
    BY <1>4, <2>1, <2>3, <2>4 DEF CallOk
<1>6. ensuring[c] = None
  BY <1>4 DEF DeskInv, EnsuringSound, Idle
<1>7. spent' \in [{"calls", "edits", "kills"} -> Nat]
  BY DEF Begin, Spend, DeskInv, Counters
<1> QED
  BY <1>4, <1>5, <1>6, <1>7, CallStep DEF Begin

LEMMA ResolveNamedStep ==
  ASSUME DeskInv, NEW c \in Calls, ResolveNamed(c)
  PROVE  DeskInv'
<1>1. PICK s \in Studies \union {None} : s = call[c].named
  BY DEF DeskInv, CallsSound, CallOk, CallRecs
<1>2. PICK plan : plan = IF study[s].saved THEN <<"bind", "link", "work">> ELSE <<"work">>
  OBVIOUS
<1>3. plan \in Seq(Later)
  <2>1. <<"bind", "link", "work">> \in Seq(Later) /\ <<"work">> \in Seq(Later)
    BY ShortPlans DEF Later
  <2> QED
    BY <1>2, <2>1
<1>4. Resolve(c, s, "named", plan) /\ ensuring[c] = None /\ call[c].todo # << >>
  BY <1>1, <1>2 DEF ResolveNamed, At
<1> QED
  BY <1>3, <1>4, ResolveStep DEF ResolveNamed, Rules

LEMMA ResolveBoundStep ==
  ASSUME DeskInv, NEW c \in Calls, ResolveBound(c)
  PROVE  DeskInv'
<1>0. ensuring[c] = None /\ call[c].todo # << >> /\ UNCHANGED <<binding, project, lock, ensuring, seen, confirmed, spent>>
  BY DEF ResolveBound, At
<1>1. <<"home", "work">> \in Seq(Later) /\ <<"home", "bind", "link", "work">> \in Seq(Later)
      /\ <<"default">> \in Seq(Later)
  BY ShortPlans DEF Later
<1>2. ASSUME NEW s \in Studies \union {None}, Resolve(c, s, "chat_binding", <<"home", "work">>)
      PROVE  DeskInv'
  BY <1>0, <1>1, <1>2, ResolveStep DEF Rules
<1>3. CASE Resolve(c, call[c].named, "auto_create", <<"home", "bind", "link", "work">>)
  <2>1. PICK s \in Studies \union {None} : s = call[c].named
    BY DEF DeskInv, CallsSound, CallOk, CallRecs
  <2> QED
    BY <1>0, <1>1, <1>3, <2>1, ResolveStep DEF Rules
<1>4. CASE call' = [call EXCEPT ![c].todo = <<"default">>]
  BY <1>0, <1>1, <1>4, ReplanStep
<1>5. CASE Refuse(c)
  BY <1>0, <1>5, RefuseStep
<1>6. CASE binding[call[c].chat].study # None /\ Resolve(c, binding[call[c].chat].study, "chat_binding", <<"home", "work">>)
  <2>1. call[c].chat \in Chats
    BY <1>0 DEF DeskInv, CallsSound, CallOk
  <2> QED
    BY <1>2, <1>6, <2>1 DEF DeskInv, BindingsSound, Bindings
<1> QED
  BY <1>3, <1>4, <1>5, <1>6 DEF ResolveBound

LEMMA ResolveDefaultStep ==
  ASSUME DeskInv, NEW c \in Calls, ResolveDefault(c)
  PROVE  DeskInv'
<1>0. ensuring[c] = None /\ call[c].todo # << >> /\ UNCHANGED <<binding, project, lock, ensuring, seen, confirmed, spent>>
  BY DEF ResolveDefault, At
<1>1. <<"bind", "link", "home", "work">> \in Seq(Later) /\ <<"single">> \in Seq(Later)
  BY ShortPlans DEF Later
<1>2. CASE call' = [call EXCEPT ![c].todo = <<"single">>]
  BY <1>0, <1>1, <1>2, ReplanStep
<1>3. ASSUME NEW p, p = ProjectOf(c), p # None, IsConfirmed(project[p]),
             Resolve(c, project[p].default, "project_default", <<"bind", "link", "home", "work">>)
      PROVE  DeskInv'
  <2>1. p \in ProjectIds /\ Exists(p)
    <3>1. call[c].pid # None => call[c].pid \in ProjectIds /\ Exists(call[c].pid)
      BY DEF DeskInv, CallsSound, CallOk, CallRecs
    <3> QED
      BY <1>3, <3>1, FindByDirFinds DEF ProjectOf
  <2>2. project[p] \in ProjectFiles /\ <<p, project[p].default>> \in confirmed
    BY <1>3, <2>1 DEF DeskInv, ProjectsSound, IsConfirmed, Exists
  <2>3. Vetted(project[p].default) /\ project[p].default \in Studies \union {None}
    BY <2>1, <2>2 DEF Vetted, ProjectFiles
  <2> QED
    BY <1>0, <1>1, <1>3, <2>3, ResolveStep DEF Rules
<1> QED
  BY <1>2, <1>3 DEF ResolveDefault

LEMMA ResolveSingleStep ==
  ASSUME DeskInv, NEW c \in Calls, ResolveSingle(c)
  PROVE  DeskInv'
<1>0. ensuring[c] = None /\ call[c].todo # << >> /\ UNCHANGED <<binding, project, lock, ensuring, seen, confirmed, spent>>
  BY DEF ResolveSingle, At
<1>1. <<"bind", "link", "home", "work">> \in Seq(Later)
  BY ShortPlans DEF Later
<1>2. ASSUME NEW s \in Studies, Resolve(c, s, "single_study", <<"bind", "link", "home", "work">>)
      PROVE  DeskInv'
  BY <1>0, <1>1, <1>2, ResolveStep DEF Rules
<1>3. CASE Refuse(c)
  BY <1>0, <1>3, RefuseStep
<1> QED
  BY <1>2, <1>3 DEF ResolveSingle

LEMMA ToolStep ==
  ASSUME DeskInv, NEW c \in Calls, Home(c) \/ Work(c) \/ Start(c) \/ Rebind(c)
  PROVE  DeskInv'
<1>0. ensuring[c] = None /\ call[c].todo # << >> /\ UNCHANGED <<binding, project, lock, ensuring, seen, confirmed, spent>>
  BY DEF Home, Work, Start, Rebind, At
<1>1. <<"bind", "link">> \in Seq(Later)
  BY ShortPlans DEF Later
<1>2. CASE Proceed(c)
  BY <1>0, <1>2, ProceedStep
<1>3. CASE Refuse(c)
  BY <1>0, <1>3, RefuseStep
<1>4. ASSUME NEW rule \in {"start", "rebind"}, Resolve(c, call[c].named, rule, <<"bind", "link">>)
      PROVE  DeskInv'
  <2>1. PICK s \in Studies \union {None} : s = call[c].named
    BY DEF DeskInv, CallsSound, CallOk, CallRecs
  <2>2. rule \in Rules /\ rule # "project_default"
    BY <1>4 DEF Rules
  <2>3. Resolve(c, s, rule, <<"bind", "link">>)
    BY <1>4, <2>1
  <2> QED
    BY <1>0, <1>1, <2>2, <2>3, ResolveStep
<1>5. CASE Home(c) \/ Work(c)
  BY <1>2, <1>5 DEF Home, Work
<1>6. CASE Start(c)
  BY <1>3, <1>4, <1>6 DEF Start
<1>7. CASE Rebind(c)
  BY <1>3, <1>4, <1>7 DEF Rebind
<1> QED
  BY <1>5, <1>6, <1>7

-----------------------------------------------------------------------------
(* What a step leaves alone *)

LEMMA CallsKept ==
  ASSUME CallsSound, NEW c,
         call' = [d \in Calls |-> call'[d]],
         confirmed \subseteq confirmed',
         \A p \in ProjectIds : Exists(p) => Exists(p)',
         c \in Calls => CallOk(c, call[c])',
         \A d \in Calls \ {c} : call'[d] = call[d],
         \A d \in Calls \ {c} : lock["bindings"] = d => lock'["bindings"] = d /\ binding' = binding
  PROVE  CallsSound'
<1>1. ASSUME NEW d \in Calls \ {c}
      PROVE  CallOk(d, call[d])'
  <2>1. PICK k : k = call[d] /\ k = call'[d]
    OBVIOUS
  <2>2. CallOk(d, k)
    BY <2>1 DEF CallsSound
  <2>3. /\ k \in CallRecs
        /\ k.todo # << >> => k.chat \in Chats /\ Tail(k.todo) \in Seq(Later)
        /\ k.todo # << >> /\ Head(k.todo) = "save" => lock'["bindings"] = d /\ k.loaded = binding'
    BY <2>2 DEF CallOk
  <2>4. k.pid # None => Exists(k.pid)'
    BY <2>2 DEF CallOk, CallRecs
  <2>5. k.rule = "project_default" => Vetted(k.study)'
    BY <2>2 DEF CallOk, Vetted
  <2> QED
    BY <2>1, <2>3, <2>4, <2>5 DEF CallOk, Exists, Vetted
<1> QED
  BY <1>1 DEF CallsSound

LEMMA EnsuringKept ==
  ASSUME EnsuringSound, NEW x,
         ensuring' = [y \in Clients |-> ensuring'[y]],
         \A p \in ProjectIds : Exists(p) => Exists(p)',
         x \in Clients /\ ensuring'[x] # None => EnsuringOk(x, ensuring[x])',
         \A y \in Clients \ {x} : ensuring'[y] = ensuring[y],
         \A y \in Clients \ {x} : lock["registry"] = y =>
            lock'["registry"] = y /\ \A p \in ProjectIds : Exists(p)' => Exists(p) /\ Roots(p)' = Roots(p),
         \A c \in Calls : ensuring'[c] # None => call'[c].todo # << >>
  PROVE  EnsuringSound'
<1>1. ASSUME NEW y \in Clients \ {x}, ensuring'[y] # None
      PROVE  EnsuringOk(y, ensuring[y])'
  <2>1. PICK e : e = ensuring[y] /\ e = ensuring'[y]
    BY <1>1
  <2>2. EnsuringOk(y, e)
    BY <1>1, <2>1 DEF EnsuringSound
  <2>3. e \in EnsureRecs /\ (e.attach # None => Exists(e.attach)') /\ (e.found # None => Exists(e.found)')
    BY <2>2 DEF EnsuringOk, EnsureRecs
  <2>4. e.locked => lock'["registry"] = y
    BY <2>2 DEF EnsuringOk
  <2>5. e.locked /\ e.found = None => \A p \in ProjectIds : Exists(p)' => e.dir \notin Roots(p)'
    BY <2>2 DEF EnsuringOk
  <2> QED
    BY <2>1, <2>3, <2>4, <2>5 DEF EnsuringOk, Exists, Roots
<1> QED
  BY <1>1 DEF EnsuringSound

\* A project file is written.
LEMMA ProjectStep ==
  ASSUME DeskInv, NEW p \in ProjectIds, NEW new \in ProjectFiles,
         project' = [project EXCEPT ![p] = new], confirmed \subseteq confirmed',
         Exists(p) => new = project[p] \/ new.revision > project[p].revision,
         new.confirmed => new.default # None /\ <<p, new.default>> \in confirmed',
         \A q \in ProjectIds, d \in {new.root} \union new.aliases : Exists(q) /\ d \in Roots(q) => q = p
  PROVE  /\ ProjectsSound' /\ OneOwner'
         /\ \A q \in ProjectIds : Exists(q) => Exists(q)'
         /\ \A q \in ProjectIds : Exists(q)' /\ q # p => Exists(q) /\ Roots(q)' = Roots(q)
         /\ \A v : SeenOk(v) => SeenOk(v)'
         /\ \A v : v = [id |-> p, rec |-> new] => SeenOk(v)'
<1>1. /\ project \in [ProjectIds -> ProjectFiles \union {None}]
      /\ \A q \in ProjectIds : project'[q] = IF q = p THEN new ELSE project[q]
      /\ new # None
  BY NoClient DEF DeskInv, ProjectsSound
<1>2. \A q \in ProjectIds : Exists(q) => Exists(q)'
  BY <1>1 DEF Exists
<1>3. \A q \in ProjectIds : Exists(q)' /\ q # p => Exists(q) /\ Roots(q)' = Roots(q)
  BY <1>1 DEF Exists, Roots
<1>4. ProjectsSound'
  <2>1. project' \in [ProjectIds -> ProjectFiles \union {None}]
    BY <1>1
  <2>2. ASSUME NEW q \in ProjectIds, Exists(q)', project'[q].confirmed
        PROVE  project'[q].default # None /\ <<q, project'[q].default>> \in confirmed'
    BY <1>1, <2>2 DEF DeskInv, ProjectsSound, Exists
  <2> QED
    BY <2>1, <2>2 DEF ProjectsSound
<1>5. OneOwner'
  <2> SUFFICES ASSUME NEW q \in ProjectIds, NEW r \in ProjectIds, NEW d \in Dirs,
                      Exists(q)', Exists(r)', d \in Roots(q)', d \in Roots(r)'
               PROVE  q = r
    BY DEF OneOwner
  <2>1. Roots(p)' = {new.root} \union new.aliases
    BY <1>1 DEF Roots
  <2>2. CASE q = p
    BY <1>3, <2>1, <2>2
  <2>3. CASE r = p
    BY <1>3, <2>1, <2>3
  <2>4. CASE q # p /\ r # p
    BY <1>3, <2>4 DEF DeskInv, OneOwner
  <2> QED
    BY <2>2, <2>3, <2>4
<1>6. ASSUME NEW v, SeenOk(v)
      PROVE  SeenOk(v)'
  <2>1. /\ v \in [id : ProjectIds, rec : ProjectFiles] /\ v.id \in ProjectIds /\ v.rec \in ProjectFiles
        /\ Exists(v.id)
        /\ v.rec.revision <= project[v.id].revision
        /\ v.rec.revision = project[v.id].revision => v.rec = project[v.id]
    BY <1>6 DEF SeenOk
  <2>2. project[v.id] \in ProjectFiles /\ project[v.id].revision \in Nat /\ v.rec.revision \in Nat
    BY <1>1, <2>1 DEF Exists, ProjectFiles
  <2>3. new.revision \in Nat
    BY DEF ProjectFiles
  <2>4. CASE v.id # p
    BY <1>1, <1>2, <2>1, <2>4 DEF SeenOk
  <2>5. CASE v.id = p
    BY <1>1, <1>2, <2>1, <2>2, <2>3, <2>5 DEF SeenOk
  <2> QED
    BY <2>4, <2>5
<1>7. ASSUME NEW v, v = [id |-> p, rec |-> new]
      PROVE  SeenOk(v)'
  <2>1. new.revision \in Nat /\ project'[p] = new
    BY <1>1 DEF ProjectFiles
  <2> QED
    BY <1>1, <1>7, <2>1 DEF SeenOk, Exists
<1> QED
  BY <1>2, <1>3, <1>4, <1>5, <1>6, <1>7

\* An edit of a project that keeps its folders and its count.
SameFolders(rec, p) ==
    /\ rec \in ProjectFiles
    /\ rec.root = project[p].root /\ rec.aliases = project[p].aliases
    /\ rec.revision = project[p].revision

LEMMA WriteIs ==
  ASSUME DeskInv, NEW p \in ProjectIds, Exists(p), NEW rec \in ProjectFiles,
         rec.revision = project[p].revision, Write(p, rec)
  PROVE  \E new \in ProjectFiles :
            /\ project' = [project EXCEPT ![p] = new] /\ project'[p] = new
            /\ new.root = rec.root /\ new.aliases = rec.aliases /\ new.studies = rec.studies
            /\ new.default = rec.default /\ new.confirmed = rec.confirmed
            /\ new = project[p] \/ new.revision > project[p].revision
<1>1. project \in [ProjectIds -> ProjectFiles \union {None}]
  BY DEF DeskInv, ProjectsSound
<1>2. rec.revision \in Nat
  BY DEF ProjectFiles
<1>3. CASE rec = project[p]
  <2>1. project' = project /\ project = [project EXCEPT ![p] = rec]
    BY <1>1, <1>3 DEF Write
  <2> QED
    BY <1>1, <1>3, <2>1
<1>4. CASE rec # project[p]
  <2> DEFINE new == [rec EXCEPT !.revision = rec.revision + 1]
  <2>1. project' = [project EXCEPT ![p] = new]
    BY <1>4 DEF Write
  <2>2. /\ new \in ProjectFiles /\ new.root = rec.root /\ new.aliases = rec.aliases /\ new.studies = rec.studies
        /\ new.default = rec.default /\ new.confirmed = rec.confirmed /\ new.revision = rec.revision + 1
    BY <1>2 DEF ProjectFiles
  <2> HIDE DEF new
  <2>3. project'[p] = new
    BY <1>1, <2>1
  <2>4. new.revision > project[p].revision
    BY <1>2, <2>2
  <2> QED
    BY <2>1, <2>2, <2>3, <2>4
<1> QED
  BY <1>3, <1>4

LEMMA LinkedIs ==
  ASSUME NEW rec \in ProjectFiles, NEW s, NEW by \in {"auto", "user"}
  PROVE  LET new == Linked(rec, s, by) IN
         /\ new \in ProjectFiles /\ new.root = rec.root /\ new.aliases = rec.aliases
         /\ new.revision = rec.revision /\ new.default = rec.default /\ new.confirmed = rec.confirmed
<1> DEFINE f == [rec.studies EXCEPT ![s] = IF @ = "no" THEN by ELSE @]
<1>1. f \in [Studies -> {"no", "migration", "auto", "user"}]
  BY DEF ProjectFiles
<1>2. Linked(rec, s, by) = [rec EXCEPT !.studies = f]
  BY DEF Linked
<1> HIDE DEF f
<1> QED
  BY <1>1, <1>2 DEF ProjectFiles

LEMMA SuggestedIs ==
  ASSUME NEW rec \in ProjectFiles, NEW s \in Studies \union {None}
  PROVE  LET new == Suggested(rec, s) IN
         /\ new \in ProjectFiles /\ new.root = rec.root /\ new.aliases = rec.aliases
         /\ new.revision = rec.revision
         /\ new.confirmed => new.default = rec.default /\ rec.confirmed /\ rec.default # None
         /\ rec.default # None => new = rec
BY DEF Suggested, ProjectFiles

\* A step that only edits a project.
LEMMA EditStep ==
  ASSUME DeskInv, NEW p \in ProjectIds, Exists(p), NEW rec, SameFolders(rec, p), Write(p, rec),
         confirmed \subseteq confirmed',
         rec.confirmed => rec.default # None /\ <<p, rec.default>> \in confirmed',
         UNCHANGED <<binding, lock, ensuring>>
  PROVE  /\ ProjectsSound' /\ OneOwner' /\ BindingsSound'
         /\ \A q \in ProjectIds : Exists(q) => Exists(q)'
         /\ \A q \in ProjectIds : Exists(q)' => Exists(q) /\ Roots(q)' = Roots(q)
         /\ \A v : SeenOk(v) => SeenOk(v)'
         /\ \A v : v = [id |-> p, rec |-> project'[p]] => SeenOk(v)'
<1>1. PICK new \in ProjectFiles :
         /\ project' = [project EXCEPT ![p] = new] /\ project'[p] = new
         /\ new.root = rec.root /\ new.aliases = rec.aliases
         /\ new.default = rec.default /\ new.confirmed = rec.confirmed
         /\ new = project[p] \/ new.revision > project[p].revision
  BY WriteIs DEF SameFolders
<1>2. \A q \in ProjectIds, d \in {new.root} \union new.aliases : Exists(q) /\ d \in Roots(q) => q = p
  <2> SUFFICES ASSUME NEW q \in ProjectIds, NEW d \in {new.root} \union new.aliases, Exists(q), d \in Roots(q)
               PROVE  q = p
    OBVIOUS
  <2>1. d \in Dirs /\ d \in Roots(p)
    BY <1>1 DEF ProjectFiles, Roots, SameFolders
  <2> QED
    BY <2>1 DEF DeskInv, OneOwner
<1>3. /\ ProjectsSound' /\ OneOwner'
      /\ \A q \in ProjectIds : Exists(q) => Exists(q)'
      /\ \A q \in ProjectIds : Exists(q)' /\ q # p => Exists(q) /\ Roots(q)' = Roots(q)
      /\ \A v : SeenOk(v) => SeenOk(v)'
      /\ \A v : v = [id |-> p, rec |-> new] => SeenOk(v)'
  BY <1>1, <1>2, ProjectStep
<1>4. \A q \in ProjectIds : Exists(q)' => Exists(q) /\ Roots(q)' = Roots(q)
  BY <1>1, <1>3 DEF SameFolders, Roots
<1>5. BindingsSound'
  BY DEF DeskInv, BindingsSound, Vetted
<1> QED
  BY <1>1, <1>3, <1>4, <1>5

-----------------------------------------------------------------------------
(* Binding *)

LEMMA BindLoadStep ==
  ASSUME DeskInv, NEW c \in Calls, BindLoad(c)
  PROVE  DeskInv'
<1>0. ensuring[c] = None /\ call[c].todo # << >> /\ UNCHANGED <<binding, project, ensuring, seen, confirmed, spent>>
  BY DEF BindLoad, At
<1>1. CASE Proceed(c) /\ UNCHANGED lock
  BY <1>0, <1>1, ProceedStep
<1>2. CASE /\ call' = [call EXCEPT ![c].loaded = binding, ![c].todo = <<"save">> \o Tail(@)]
           /\ lock' = [lock EXCEPT !["bindings"] = c]
  <2> DEFINE t == Tail(call[c].todo)
             k == [call[c] EXCEPT !.loaded = binding, !.todo = <<"save">> \o t]
  <2>1. CallOk(c, call[c])
    BY DEF DeskInv, CallsSound
  <2>2. call[c] \in CallRecs /\ call[c].chat \in Chats /\ t \in Seq(Later)
        /\ (call[c].pid # None => Exists(call[c].pid))
        /\ (call[c].rule = "project_default" => Vetted(call[c].study))
    BY <1>0, <2>1 DEF CallOk
  <2>3. call' = [call EXCEPT ![c] = k]
    BY <1>2
  <2> HIDE DEF t
  <2>4. <<"save">> \o t \in Plans /\ <<"save">> \o t # << >> /\ Tail(<<"save">> \o t) = t
    BY <2>2, SavePlan DEF Plans
  <2>5. binding \in Loads
    BY DEF Loads, DeskInv, BindingsSound
  <2>6. /\ k \in CallRecs /\ k.chat = call[c].chat /\ k.pid = call[c].pid /\ k.rule = call[c].rule
        /\ k.study = call[c].study /\ k.todo = <<"save">> \o t /\ k.loaded = binding
    BY <2>2, <2>4, <2>5 DEF CallRecs
  <2> HIDE DEF k
  <2>7. call' = [d \in Calls |-> call'[d]] /\ \A d \in Calls : call'[d] = IF d = c THEN k ELSE call[d]
    BY <2>3 DEF DeskInv, CallsSound
  <2>8. lock["bindings"] = None /\ lock'["bindings"] = c /\ lock'["registry"] = lock["registry"]
        /\ lock' \in [{"bindings", "registry"} -> Clients \union {None}]
    BY <1>2 DEF BindLoad, Free, DeskInv, Counters, Clients
  <2>9. CallOk(c, call[c])'
    <3>1. call'[c] = k /\ k \in CallRecs /\ k.chat \in Chats /\ Tail(k.todo) \in Seq(Later)
          /\ lock'["bindings"] = c /\ k.loaded = binding'
      BY <1>0, <2>2, <2>4, <2>6, <2>7, <2>8
    <3>2. /\ k.pid # None => project'[k.pid] # None
          /\ k.rule = "project_default" => \E p \in ProjectIds : <<p, k.study>> \in confirmed'
      BY <1>0, <2>2, <2>6 DEF Exists, Vetted
    <3> QED
      BY <3>1, <3>2 DEF CallOk, Exists, Vetted
  <2>10. CallsSound'
    <3>1. \A d \in Calls \ {c} : lock["bindings"] # d
      BY <2>8, NoClient DEF Clients
    <3>2. /\ CallsSound /\ confirmed \subseteq confirmed' /\ \A p \in ProjectIds : Exists(p) => Exists(p)'
          /\ \A d \in Calls \ {c} : call'[d] = call[d]
      BY <1>0, <2>7 DEF DeskInv, Exists
    <3> QED
      BY <2>7, <2>9, <3>1, <3>2, CallsKept
  <2>11. EnsuringSound'
    <3>1. \A d \in Calls : ensuring'[d] # None => call'[d].todo # << >>
      BY <1>0, <2>7 DEF DeskInv, EnsuringSound
    <3> QED
      BY <1>0, <2>8, <3>1 DEF DeskInv, EnsuringSound, EnsuringOk, Exists, Roots
  <2>12. ProjectsSound' /\ OneOwner' /\ SeenSound' /\ BindingsSound' /\ Counters'
    BY <1>0, <2>8 DEF DeskInv, ProjectsSound, OneOwner, SeenSound, SeenOk, BindingsSound, Vetted, Counters, Exists, Roots
  <2> QED
    BY <2>10, <2>11, <2>12 DEF DeskInv
<1> QED
  BY <1>1, <1>2 DEF BindLoad

\* What a save of the bindings leaves of a chat.
LEMMA CompactedIs ==
  ASSUME NEW b \in [Chats -> Bindings]
  PROVE  /\ Compacted(b) \in [Chats -> Bindings]
         /\ \A ch \in Chats : Compacted(b)[ch] # b[ch] => Compacted(b)[ch] = Unbound /\ ~study[b[ch].study].saved
<1>1. Unbound \in Bindings
  BY DEF Unbound, Bindings
<1> QED
  BY <1>1 DEF Compacted

LEMMA BindSaveIs ==
  ASSUME DeskInv, NEW c \in Calls, BindSave(c)
  PROVE  LET own == [study |-> call[c].study, by |-> call[c].rule] IN
         /\ call[c].chat \in Chats /\ own \in Bindings
         /\ binding' = Compacted([binding EXCEPT ![call[c].chat] = own])
         /\ call[c].rule = "project_default" => Vetted(call[c].study)
         /\ lock["bindings"] = c
<1>1. call[c].todo # << >> /\ Head(call[c].todo) = "save" /\ CallOk(c, call[c])
  BY DEF BindSave, At, DeskInv, CallsSound
<1>2. call[c].loaded = binding /\ call[c].chat \in Chats /\ lock["bindings"] = c
      /\ (call[c].rule = "project_default" => Vetted(call[c].study)) /\ call[c] \in CallRecs
  BY <1>1 DEF CallOk
<1>3. [study |-> call[c].study, by |-> call[c].rule] \in Bindings
  BY <1>2 DEF CallRecs, Bindings
<1> QED
  BY <1>2, <1>3 DEF BindSave

LEMMA BindSaveStep ==
  ASSUME DeskInv, NEW c \in Calls, BindSave(c)
  PROVE  DeskInv'
<1>0. ensuring[c] = None /\ call[c].todo # << >> /\ UNCHANGED <<project, ensuring, seen, confirmed, spent>>
  BY DEF BindSave, At
<1> DEFINE own == [study |-> call[c].study, by |-> call[c].rule]
           b == [binding EXCEPT ![call[c].chat] = own]
<1>1. /\ call[c].chat \in Chats /\ own \in Bindings /\ binding' = Compacted(b)
      /\ call[c].rule = "project_default" => Vetted(call[c].study)
      /\ lock["bindings"] = c
  BY BindSaveIs
<1>2. binding \in [Chats -> Bindings] /\ \A ch \in Chats : binding[ch].by = "project_default" => Vetted(binding[ch].study)
  BY DEF DeskInv, BindingsSound
<1>3. BindingsSound'
  <2>1. b \in [Chats -> Bindings] /\ \A ch \in Chats : b[ch].by = "project_default" => Vetted(b[ch].study)
    BY <1>1, <1>2
  <2> HIDE DEF b
  <2>2. binding' \in [Chats -> Bindings] /\ \A ch \in Chats : binding'[ch] # b[ch] => binding'[ch] = Unbound
    BY <1>1, <2>1, CompactedIs
  <2>3. Unbound.by # "project_default"
    BY NoClient DEF Unbound, Rules
  <2> QED
    BY <1>0, <2>1, <2>2, <2>3 DEF BindingsSound, Vetted
<1>4. CallsSound' /\ (\A d \in Calls : ensuring'[d] # None => call'[d].todo # << >>)
  <2> DEFINE k == [call[c] EXCEPT !.loaded = None, !.todo = Tail(call[c].todo)]
  <2>1. call' = [call EXCEPT ![c] = k]
    BY DEF BindSave
  <2>2. CallOk(c, call[c])
    BY DEF DeskInv, CallsSound
  <2>3. call[c] \in CallRecs /\ Tail(call[c].todo) \in Seq(Later) /\ (call[c].pid # None => Exists(call[c].pid))
    BY <1>0, <2>2 DEF CallOk
  <2>4. /\ Tail(call[c].todo) \in Plans
        /\ Tail(call[c].todo) # << >> => Tail(Tail(call[c].todo)) \in Seq(Later) /\ Head(Tail(call[c].todo)) # "save"
    BY <2>3, PlainPlan DEF Later, Plans
  <2>5. /\ k \in CallRecs /\ k.chat = call[c].chat /\ k.pid = call[c].pid /\ k.rule = call[c].rule
        /\ k.study = call[c].study /\ k.todo = Tail(call[c].todo)
    BY <2>3, <2>4 DEF CallRecs, Loads
  <2> HIDE DEF k
  <2>6. call' = [d \in Calls |-> call'[d]] /\ \A d \in Calls : call'[d] = IF d = c THEN k ELSE call[d]
    BY <2>1 DEF DeskInv, CallsSound
  <2>7. CallOk(c, call[c])'
    BY <1>0, <1>1, <2>3, <2>4, <2>5, <2>6 DEF CallOk, Exists, Vetted
  <2>8. CallsSound'
    <3>1. /\ CallsSound /\ confirmed \subseteq confirmed' /\ \A p \in ProjectIds : Exists(p) => Exists(p)'
          /\ \A d \in Calls \ {c} : call'[d] = call[d] /\ lock["bindings"] # d
      BY <1>0, <1>1, <2>6 DEF DeskInv, Exists
    <3> QED
      BY <2>6, <2>7, <3>1, CallsKept
  <2> QED
    BY <1>0, <2>6, <2>8 DEF DeskInv, EnsuringSound
<1>5. Counters' /\ lock'["registry"] = lock["registry"]
  BY <1>0 DEF BindSave, DeskInv, Counters
<1>6. EnsuringSound'
  BY <1>0, <1>4, <1>5 DEF DeskInv, EnsuringSound, EnsuringOk, Exists, Roots
<1>7. ProjectsSound' /\ OneOwner' /\ SeenSound'
  BY <1>0 DEF DeskInv, ProjectsSound, OneOwner, SeenSound, SeenOk, Exists, Roots
<1> QED
  BY <1>3, <1>4, <1>5, <1>6, <1>7 DEF DeskInv

\* A call goes on while a project of its is edited.
LEMMA ProceedEdits ==
  ASSUME DeskInv, NEW c \in Calls, ensuring[c] = None, call[c].todo # << >>, Proceed(c),
         UNCHANGED <<binding, lock, ensuring, seen, confirmed, spent>>,
         \/ UNCHANGED project
         \/ \E p \in ProjectIds, rec \in ProjectFiles :
              /\ Exists(p) /\ SameFolders(rec, p) /\ Write(p, rec)
              /\ rec.confirmed => rec.default # None /\ <<p, rec.default>> \in confirmed
  PROVE  DeskInv'
<1>1. CASE UNCHANGED project
  BY <1>1, ProceedStep
<1>2. ASSUME NEW p \in ProjectIds, NEW rec \in ProjectFiles, Exists(p), SameFolders(rec, p), Write(p, rec),
             rec.confirmed => rec.default # None /\ <<p, rec.default>> \in confirmed
      PROVE  DeskInv'
  <2>1. /\ ProjectsSound' /\ OneOwner' /\ BindingsSound'
        /\ \A q \in ProjectIds : Exists(q) => Exists(q)'
        /\ \A q \in ProjectIds : Exists(q)' => Exists(q) /\ Roots(q)' = Roots(q)
        /\ \A v : SeenOk(v) => SeenOk(v)'
    BY <1>2, EditStep
  <2> DEFINE k == IF Tail(call[c].todo) = << >> THEN Idle ELSE [call[c] EXCEPT !.todo = Tail(@)]
  <2>2. call' = [call EXCEPT ![c] = k]
    BY DEF Proceed
  <2>3. CallOk(c, k)
    BY ProceedOk DEF DeskInv, CallsSound
  <2> HIDE DEF k
  <2>4. call' = [d \in Calls |-> call'[d]] /\ \A d \in Calls : call'[d] = IF d = c THEN k ELSE call[d]
    BY <2>2 DEF DeskInv, CallsSound
  <2>5. CallOk(c, call[c])'
    <3>1. /\ k \in CallRecs
          /\ k.todo # << >> => k.chat \in Chats /\ Tail(k.todo) \in Seq(Later)
          /\ k.todo # << >> /\ Head(k.todo) = "save" => lock'["bindings"] = c /\ k.loaded = binding'
      BY <2>3 DEF CallOk
    <3>2. k.pid # None => project'[k.pid] # None
      BY <2>1, <2>3 DEF CallOk, CallRecs, Exists
    <3>3. k.rule = "project_default" => \E q \in ProjectIds : <<q, k.study>> \in confirmed'
      BY <2>3 DEF CallOk, Vetted
    <3> QED
      BY <2>4, <3>1, <3>2, <3>3 DEF CallOk, Exists, Vetted
  <2>6. CallsSound'
    <3>1. CallsSound /\ confirmed \subseteq confirmed' /\ \A d \in Calls \ {c} : call'[d] = call[d]
      BY <2>4 DEF DeskInv
    <3> QED
      BY <2>1, <2>4, <2>5, <3>1, CallsKept
  <2>7. EnsuringSound'
    <3>1. EnsuringSound /\ ensuring' = [y \in Clients |-> ensuring'[y]] /\ ensuring'[c] = None
          /\ \A d \in Calls : ensuring'[d] # None => call'[d].todo # << >>
      BY <2>4 DEF DeskInv, EnsuringSound
    <3> QED
      BY <2>1, <3>1, EnsuringKept
  <2>8. SeenSound' /\ Counters'
    BY <2>1 DEF DeskInv, SeenSound, Counters
  <2> QED
    BY <2>1, <2>6, <2>7, <2>8 DEF DeskInv
<1> QED
  BY <1>1, <1>2

LEMMA LinkStep ==
  ASSUME DeskInv, NEW c \in Calls, Link(c)
  PROVE  DeskInv'
<1>1. /\ ensuring[c] = None /\ call[c].todo # << >> /\ call[c].pid # None
      /\ Proceed(c) /\ UNCHANGED <<binding, lock, ensuring, seen, confirmed, spent>>
  BY DEF Link, At
<1>2. CallOk(c, call[c]) /\ call[c] \in CallRecs
  BY DEF DeskInv, CallsSound, CallOk
<1>3. PICK p \in ProjectIds : p = call[c].pid /\ Exists(p)
  BY <1>1, <1>2 DEF CallOk, CallRecs
<1>4. project[p] \in ProjectFiles /\ (project[p].confirmed => <<p, project[p].default>> \in confirmed)
  BY <1>3 DEF DeskInv, ProjectsSound, Exists
<1>5. PICK s \in Studies \union {None} : s = call[c].study
  BY <1>2 DEF CallRecs
<1> DEFINE linked == Linked(project[p], s, "auto")
           rec == Suggested(linked, s)
<1>6. /\ linked \in ProjectFiles /\ linked.root = project[p].root /\ linked.aliases = project[p].aliases
      /\ linked.revision = project[p].revision /\ linked.default = project[p].default
      /\ linked.confirmed = project[p].confirmed
  BY <1>4, LinkedIs
<1> HIDE DEF linked
<1>7. /\ rec \in ProjectFiles /\ rec.root = linked.root /\ rec.aliases = linked.aliases
      /\ rec.revision = linked.revision
      /\ rec.confirmed => rec.default = linked.default /\ linked.confirmed /\ linked.default # None
  BY <1>6, SuggestedIs
<1>8. Write(p, rec)
  BY <1>3, <1>5 DEF Link, linked
<1> HIDE DEF rec
<1>9. SameFolders(rec, p) /\ (rec.confirmed => rec.default # None /\ <<p, rec.default>> \in confirmed)
  BY <1>4, <1>6, <1>7 DEF SameFolders
<1> QED
  BY <1>1, <1>3, <1>7, <1>8, <1>9, ProceedEdits

LEMMA RelabelStep ==
  ASSUME DeskInv, NEW c \in Calls, Relabel(c)
  PROVE  DeskInv'
<1>1. /\ ensuring[c] = None /\ call[c].todo # << >>
      /\ Proceed(c) /\ UNCHANGED <<binding, lock, ensuring, seen, confirmed, spent>>
  BY DEF Relabel, At
<1>2. CallOk(c, call[c]) /\ call[c] \in CallRecs
  BY DEF DeskInv, CallsSound, CallOk
<1>3. CASE UNCHANGED project
  BY <1>1, <1>3, ProceedEdits
<1>4. CASE Write(call[c].pid, [project[call[c].pid] EXCEPT !.studies[call[c].study] = "auto"])
  <2>1. CASE call[c].pid = None
    <3>1. project \in [ProjectIds -> ProjectFiles \union {None}] /\ None \notin ProjectIds
      BY NoClient DEF DeskInv, ProjectsSound
    <3>2. ASSUME NEW e
          PROVE  [project EXCEPT ![None] = e] = project
      <4>1. [project EXCEPT ![None] = e] = [q \in ProjectIds |-> project[q]]
        BY <3>1
      <4> QED
        BY <3>1, <4>1
    <3>3. project' = project
      BY <1>4, <2>1, <3>2 DEF Write
    <3> QED
      BY <1>1, <3>3, ProceedEdits
  <2>2. CASE call[c].pid # None
    <3>1. PICK p \in ProjectIds : p = call[c].pid /\ Exists(p)
      BY <1>2, <2>2 DEF CallOk, CallRecs
    <3>2. /\ project[p] \in ProjectFiles
          /\ project[p].confirmed => project[p].default # None /\ <<p, project[p].default>> \in confirmed
      BY <3>1 DEF DeskInv, ProjectsSound, Exists
    <3> DEFINE f == [project[p].studies EXCEPT ![call[c].study] = "auto"]
               rec == [project[p] EXCEPT !.studies = f]
    <3>3. f \in [Studies -> {"no", "migration", "auto", "user"}]
      BY <3>2 DEF ProjectFiles
    <3>4. Write(p, rec)
      BY <1>4, <3>1
    <3> HIDE DEF f
    <3>5. /\ rec \in ProjectFiles /\ rec.root = project[p].root /\ rec.aliases = project[p].aliases
          /\ rec.revision = project[p].revision /\ rec.default = project[p].default
          /\ rec.confirmed = project[p].confirmed
      BY <3>2, <3>3 DEF ProjectFiles
    <3> HIDE DEF rec
    <3>6. SameFolders(rec, p)
      BY <3>5 DEF SameFolders
    <3> QED
      BY <1>1, <3>1, <3>2, <3>4, <3>5, <3>6, ProceedEdits
  <2> QED
    BY <2>1, <2>2
<1> QED
  BY <1>3, <1>4 DEF Relabel

\* A client starts to ensure a project.
LEMMA AskStep ==
  ASSUME DeskInv, NEW x \in Clients, NEW d \in Dirs, NEW attach \in ProjectIds \union {None},
         attach # None => Exists(attach), StartEnsure(x, d, attach), x \in Calls => call[x].todo # << >>,
         UNCHANGED <<binding, project, lock, call, seen, confirmed>>,
         spent' \in [{"calls", "edits", "kills"} -> Nat]
  PROVE  DeskInv'
<1> DEFINE e == [dir |-> d, attach |-> attach, found |-> None, locked |-> FALSE]
<1>1. e \in EnsureRecs /\ e.attach = attach /\ e.found = None /\ ~e.locked
  BY DEF EnsureRecs
<1>2. ensuring' = [y \in Clients |-> ensuring'[y]] /\ \A y \in Clients : ensuring'[y] = IF y = x THEN e ELSE ensuring[y]
  BY DEF StartEnsure, DeskInv, EnsuringSound
<1> HIDE DEF e
<1>3. EnsuringOk(x, ensuring[x])'
  BY <1>1, <1>2 DEF EnsuringOk, Exists
<1>4. EnsuringSound'
  <2>1. /\ EnsuringSound /\ \A y \in Clients \ {x} : ensuring'[y] = ensuring[y]
        /\ \A p \in ProjectIds : (Exists(p) => Exists(p)') /\ (Exists(p)' => Exists(p) /\ Roots(p)' = Roots(p))
        /\ \A c \in Calls : ensuring'[c] # None => call'[c].todo # << >>
    BY <1>2 DEF DeskInv, EnsuringSound, Exists, Roots, Clients
  <2> QED
    BY <1>2, <1>3, <2>1, EnsuringKept
<1>5. CallsSound'
  BY DEF DeskInv, CallsSound, CallOk, Exists, Vetted
<1>6. ProjectsSound' /\ OneOwner' /\ SeenSound' /\ BindingsSound' /\ Counters'
  BY DEF DeskInv, ProjectsSound, OneOwner, SeenSound, SeenOk, BindingsSound, Vetted, Counters, Exists, Roots
<1> QED
  BY <1>4, <1>5, <1>6 DEF DeskInv

LEMMA FindProjectStep ==
  ASSUME DeskInv, NEW c \in Calls, FindProject(c)
  PROVE  DeskInv'
<1>1. ensuring[c] = None /\ call[c].todo # << >>
  BY DEF FindProject, At
<1>2. CASE call[c].ws # None
  <2>1. call[c].ws \in Dirs
    BY <1>2 DEF DeskInv, CallsSound, CallOk, CallRecs
  <2>2. StartEnsure(c, call[c].ws, None) /\ UNCHANGED <<binding, project, lock, call, seen, confirmed, spent>>
    BY <1>2 DEF FindProject
  <2>3. spent' \in [{"calls", "edits", "kills"} -> Nat] /\ c \in Clients
    BY <2>2 DEF DeskInv, Counters, Clients
  <2> QED
    BY <1>1, <2>1, <2>2, <2>3, AskStep
<1>3. CASE call[c].ws = None
  <2>1. Proceed(c) /\ UNCHANGED <<binding, project, lock, ensuring, seen, confirmed, spent>>
    BY <1>3 DEF FindProject
  <2> QED
    BY <1>1, <2>1, ProceedStep
<1> QED
  BY <1>2, <1>3

LEMMA HostEnsureStep ==
  ASSUME DeskInv, NEW h \in Hosts, NEW d \in Dirs, NEW attach \in ProjectIds \union {None}, HostEnsure(h, d, attach)
  PROVE  DeskInv'
<1>1. h \in Clients /\ h \notin Calls
  BY DeskAssumption DEF Clients
<1>2. spent' \in [{"calls", "edits", "kills"} -> Nat]
  BY DEF HostEnsure, Spend, DeskInv, Counters
<1> QED
  BY <1>1, <1>2, AskStep DEF HostEnsure

-----------------------------------------------------------------------------
(* Ensuring *)

LEMMA LinkPlan ==
  ASSUME NEW s \in Seq(Later)
  PROVE  LET t == <<"link", "relabel">> \o s IN
         t \in Seq(Later) /\ t \in Plans /\ t # << >> /\ Tail(t) \in Seq(Later) /\ Head(t) # "save"
<1> DEFINE t == <<"link", "relabel">> \o s
<1>1. <<"link", "relabel">> \in Seq(Later) /\ Len(<<"link", "relabel">>) = 2
  BY ShortPlans DEF Later
<1>2. t \in Seq(Later) /\ Len(t) = 2 + Len(s)
  BY <1>1, ConcatProperties
<1>3. Len(s) \in Nat /\ t # << >>
  BY <1>2, LenProperties, EmptySeq
<1> HIDE DEF t
<1>4. t \in Seq(Tasks) /\ Tail(t) \in Seq(Later) /\ Head(t) \in Later
  BY <1>2, <1>3, PlainPlan
<1> QED
  BY <1>2, <1>3, <1>4 DEF t, Plans, Later

LEMMA EnsureLookStep ==
  ASSUME DeskInv, NEW x \in Clients, EnsureLook(x)
  PROVE  DeskInv'
<1>0. /\ ensuring[x] # None /\ lock["registry"] = None
      /\ UNCHANGED <<binding, project, call, seen, confirmed, spent>>
  BY DEF EnsureLook, Free
<1>1. PICK e : e = ensuring[x]
  OBVIOUS
<1>2. e \in EnsureRecs /\ (e.attach # None => Exists(e.attach))
  BY <1>0, <1>1 DEF DeskInv, EnsuringSound, EnsuringOk
<1>3. PICK found \in ProjectIds \union {None} :
         /\ found = FindByDir(e.dir)
         /\ found # None => Exists(found)
         /\ found = None => \A p \in ProjectIds : Exists(p) => e.dir \notin Roots(p)
  BY FindByDirFinds
<1> DEFINE n == [e EXCEPT !.locked = TRUE, !.found = found]
<1>4. ensuring' = [ensuring EXCEPT ![x] = n]
  BY <1>1, <1>3 DEF EnsureLook
<1>5. n \in EnsureRecs /\ n.dir = e.dir /\ n.attach = e.attach /\ n.found = found /\ n.locked
  BY <1>2 DEF EnsureRecs
<1> HIDE DEF n
<1>6. ensuring' = [y \in Clients |-> ensuring'[y]] /\ \A y \in Clients : ensuring'[y] = IF y = x THEN n ELSE ensuring[y]
  BY <1>4 DEF DeskInv, EnsuringSound
<1>7. /\ lock' \in [{"bindings", "registry"} -> Clients \union {None}]
      /\ lock'["registry"] = x /\ lock'["bindings"] = lock["bindings"]
  BY DEF EnsureLook, DeskInv, Counters
<1>8. EnsuringOk(x, ensuring[x])'
  BY <1>0, <1>2, <1>3, <1>5, <1>6, <1>7 DEF EnsuringOk, Exists, Roots
<1>9. EnsuringSound'
  <2>1. /\ EnsuringSound /\ \A y \in Clients \ {x} : ensuring'[y] = ensuring[y] /\ lock["registry"] # y
        /\ \A p \in ProjectIds : Exists(p) => Exists(p)'
    BY <1>0, <1>6, NoClient DEF DeskInv, Exists
  <2>2. \A c \in Calls : ensuring'[c] # None => call'[c].todo # << >>
    BY <1>0, <1>6 DEF DeskInv, EnsuringSound, Clients
  <2> QED
    BY <1>6, <1>8, <2>1, <2>2, EnsuringKept
<1>10. CallsSound'
  <2>1. \A d \in Calls : CallOk(d, call[d])
    BY DEF DeskInv, CallsSound
  <2> QED
    BY <1>0, <1>7, <2>1 DEF DeskInv, CallsSound, CallOk, Exists, Vetted
<1>11. ProjectsSound' /\ OneOwner' /\ SeenSound' /\ BindingsSound' /\ Counters'
  BY <1>0, <1>7 DEF DeskInv, ProjectsSound, OneOwner, SeenSound, SeenOk, BindingsSound, Vetted, Counters, Exists, Roots
<1> QED
  BY <1>9, <1>10, <1>11 DEF DeskInv

\* Ensuring ends with a project.
LEMMA DoneStep ==
  ASSUME DeskInv, NEW x \in Clients, NEW p \in ProjectIds, NEW rec,
         ensuring[x] # None, ensuring[x].locked, EnsureDone(x, p, rec),
         UNCHANGED <<binding, confirmed, spent>>,
         ProjectsSound', OneOwner', Exists(p)', \A q \in ProjectIds : Exists(q) => Exists(q)',
         \A v : SeenOk(v) => SeenOk(v)',
         \A v : v = [id |-> p, rec |-> rec] => SeenOk(v)'
  PROVE  DeskInv'
<1>1. lock["registry"] = x
  BY DEF DeskInv, EnsuringSound, EnsuringOk
<1>2. /\ lock' \in [{"bindings", "registry"} -> Clients \union {None}]
      /\ lock'["bindings"] = lock["bindings"]
  BY DEF EnsureDone, DeskInv, Counters
<1>3. ensuring' = [y \in Clients |-> ensuring'[y]] /\ \A y \in Clients : ensuring'[y] = IF y = x THEN None ELSE ensuring[y]
  BY DEF EnsureDone, DeskInv, EnsuringSound
<1>4. BindingsSound' /\ Counters'
  BY <1>2 DEF DeskInv, BindingsSound, Vetted, Counters
<1>5. CASE x \in Calls
  <2> DEFINE t == IF Exists(p) THEN call[x].todo ELSE <<"link", "relabel">> \o Tail(call[x].todo)
             k == [call[x] EXCEPT !.pid = p, !.todo = t]
  <2>1. call' = [call EXCEPT ![x] = k] /\ UNCHANGED seen
    BY <1>5 DEF EnsureDone
  <2>2. CallOk(x, call[x]) /\ call[x].todo # << >>
    BY <1>5 DEF DeskInv, CallsSound, EnsuringSound
  <2>3. /\ call[x] \in CallRecs /\ call[x].chat \in Chats /\ Tail(call[x].todo) \in Seq(Later)
        /\ Head(call[x].todo) = "save" => lock["bindings"] = x /\ call[x].loaded = binding
        /\ call[x].rule = "project_default" => Vetted(call[x].study)
    BY <2>2 DEF CallOk
  <2>4. t \in Plans /\ t # << >> /\ Tail(t) \in Seq(Later) /\ (Head(t) = "save" => t = call[x].todo)
    <3>1. call[x].todo \in Plans
      BY <2>3 DEF CallRecs
    <3> QED
      BY <2>2, <2>3, <3>1, LinkPlan
  <2> HIDE DEF t
  <2>5. /\ k \in CallRecs /\ k.chat = call[x].chat /\ k.pid = p /\ k.rule = call[x].rule
        /\ k.study = call[x].study /\ k.todo = t /\ k.loaded = call[x].loaded
    BY <2>3, <2>4 DEF CallRecs
  <2> HIDE DEF k
  <2>6. call' = [d \in Calls |-> call'[d]] /\ \A d \in Calls : call'[d] = IF d = x THEN k ELSE call[d]
    BY <2>1 DEF DeskInv, CallsSound
  <2>7. CallOk(x, call[x])'
    <3>1. /\ call'[x] = k /\ k \in CallRecs /\ k.chat \in Chats /\ Tail(k.todo) \in Seq(Later)
          /\ Head(k.todo) = "save" => lock'["bindings"] = x /\ k.loaded = binding'
      BY <1>2, <1>5, <2>3, <2>4, <2>5, <2>6
    <3>2. /\ project'[k.pid] # None
          /\ k.rule = "project_default" => \E q \in ProjectIds : <<q, k.study>> \in confirmed'
      BY <2>3, <2>5 DEF Exists, Vetted
    <3> QED
      BY <3>1, <3>2 DEF CallOk, Exists, Vetted
  <2>8. CallsSound'
    <3>1. CallsSound /\ confirmed \subseteq confirmed' /\ \A d \in Calls \ {x} : call'[d] = call[d]
      BY <2>6 DEF DeskInv
    <3> QED
      BY <1>2, <2>6, <2>7, <3>1, CallsKept
  <2>9. EnsuringSound'
    <3>1. /\ EnsuringSound /\ \A y \in Clients \ {x} : ensuring'[y] = ensuring[y] /\ lock["registry"] # y
          /\ \A d \in Calls : ensuring'[d] # None => call'[d].todo # << >>
      BY <1>1, <1>3, <2>6 DEF DeskInv, EnsuringSound, Clients
    <3> QED
      BY <1>3, <3>1, EnsuringKept
  <2>10. SeenSound'
    BY <2>1 DEF DeskInv, SeenSound
  <2> QED
    BY <1>4, <2>8, <2>9, <2>10 DEF DeskInv
<1>6. CASE x \notin Calls
  <2>1. call' = call /\ seen' = [seen EXCEPT ![x] = [id |-> p, rec |-> rec]] /\ x \in Hosts
    BY <1>6 DEF EnsureDone, Clients
  <2>2. CallsSound'
    <3>1. /\ CallsSound /\ confirmed \subseteq confirmed' /\ call' = [d \in Calls |-> call'[d]]
      BY <2>1 DEF DeskInv, CallsSound
    <3> QED
      BY <1>2, <1>6, <2>1, <3>1, CallsKept
  <2>3. EnsuringSound'
    <3>1. /\ EnsuringSound /\ \A y \in Clients \ {x} : ensuring'[y] = ensuring[y] /\ lock["registry"] # y
          /\ \A d \in Calls : ensuring'[d] # None => call'[d].todo # << >>
      BY <1>1, <1>3, <2>1 DEF DeskInv, EnsuringSound, Clients
    <3> QED
      BY <1>3, <3>1, EnsuringKept
  <2>4. SeenSound'
    <3>1. seen' = [h \in Hosts |-> seen'[h]] /\ \A h \in Hosts :
             seen'[h] = IF h = x THEN [id |-> p, rec |-> rec] ELSE seen[h]
      BY <2>1 DEF DeskInv, SeenSound
    <3>2. ASSUME NEW h \in Hosts, seen'[h] # None
          PROVE  SeenOk(seen[h])'
      <4>1. PICK v : v = seen'[h]
        OBVIOUS
      <4>2. SeenOk(v)'
        BY <3>1, <3>2, <4>1 DEF DeskInv, SeenSound
      <4> QED
        BY <4>1, <4>2 DEF SeenOk, Exists
    <3> QED
      BY <3>1, <3>2 DEF SeenSound
  <2> QED
    BY <1>4, <2>2, <2>3, <2>4 DEF DeskInv
<1> QED
  BY <1>5, <1>6

\* An ask is over without a project; a call that asked may be over with it.
LEMMA LetGoStep ==
  ASSUME DeskInv, NEW x \in Clients,
         ensuring' = [ensuring EXCEPT ![x] = None],
         lock' \in [{"bindings", "registry"} -> Clients \union {None}],
         \A l \in {"bindings", "registry"}, y \in Clients \ {x} : lock[l] = y => lock'[l] = y,
         \/ call' = call /\ (lock["bindings"] = x => lock'["bindings"] = x)
         \/ x \in Calls /\ call' = [call EXCEPT ![x] = Idle],
         UNCHANGED <<binding, project, seen, confirmed>>,
         spent' \in [{"calls", "edits", "kills"} -> Nat]
  PROVE  DeskInv'
<1>1. ensuring' = [y \in Clients |-> ensuring'[y]] /\ \A y \in Clients : ensuring'[y] = IF y = x THEN None ELSE ensuring[y]
  BY DEF DeskInv, EnsuringSound
<1>2. call' = [d \in Calls |-> call'[d]] /\ \A d \in Calls \ {x} : call'[d] = call[d]
  BY DEF DeskInv, CallsSound
<1>3. CallsSound'
  <2>1. ASSUME x \in Calls
        PROVE  CallOk(x, call[x])'
    <3>1. PICK k : k = call'[x]
      OBVIOUS
    <3>2. CASE call' = call /\ (lock["bindings"] = x => lock'["bindings"] = x)
      BY <2>1, <3>2 DEF DeskInv, CallsSound, CallOk, Exists, Vetted
    <3>3. CASE call' = [call EXCEPT ![x] = Idle]
      <4>1. call'[x] = Idle
        BY <2>1, <3>3 DEF DeskInv, CallsSound
      <4> QED
        BY <4>1, IdleOk DEF CallOk, Exists, Vetted
    <3> QED
      BY <3>2, <3>3
  <2>2. CallsSound /\ confirmed \subseteq confirmed' /\ \A p \in ProjectIds : Exists(p) => Exists(p)'
    BY DEF DeskInv, Exists
  <2>3. \A d \in Calls \ {x} : lock["bindings"] = d => lock'["bindings"] = d /\ binding' = binding
    BY DEF Clients
  <2> QED
    BY <1>2, <2>1, <2>2, <2>3, CallsKept
<1>4. EnsuringSound'
  <2>1. /\ EnsuringSound /\ \A y \in Clients \ {x} : ensuring'[y] = ensuring[y]
        /\ \A p \in ProjectIds : (Exists(p) => Exists(p)') /\ (Exists(p)' => Exists(p) /\ Roots(p)' = Roots(p))
        /\ \A d \in Calls : ensuring'[d] # None => call'[d].todo # << >>
    BY <1>1, <1>2 DEF DeskInv, EnsuringSound, Clients, Exists, Roots
  <2> QED
    BY <1>1, <2>1, EnsuringKept
<1>5. ProjectsSound' /\ OneOwner' /\ SeenSound' /\ BindingsSound' /\ Counters'
  BY DEF DeskInv, ProjectsSound, OneOwner, SeenSound, SeenOk, BindingsSound, Vetted, Counters, Exists, Roots
<1> QED
  BY <1>3, <1>4, <1>5 DEF DeskInv

LEMMA KillStep ==
  ASSUME DeskInv, NEW c \in Calls, Kill(c)
  PROVE  DeskInv'
<1>1. c \in Clients
  BY DEF Clients
<1>2. /\ lock' \in [{"bindings", "registry"} -> Clients \union {None}]
      /\ \A l \in {"bindings", "registry"}, y \in Clients \ {c} : lock[l] = y => lock'[l] = y
  BY DEF Kill, DeskInv, Counters
<1>3. spent' \in [{"calls", "edits", "kills"} -> Nat]
  BY DEF Kill, Spend, DeskInv, Counters
<1> QED
  BY <1>1, <1>2, <1>3, LetGoStep DEF Kill, Refuse

LEMMA EnsureFindsStep ==
  ASSUME DeskInv, NEW x \in Clients, EnsureFinds(x)
  PROVE  DeskInv'
<1>0. /\ ensuring[x] # None /\ ensuring[x].locked /\ ensuring[x].found # None
      /\ UNCHANGED <<study, binding, project, confirmed, spent>>
  BY DEF EnsureFinds
<1>1. EnsuringOk(x, ensuring[x])
  BY <1>0 DEF DeskInv, EnsuringSound
<1>2. CASE EnsureDone(x, ensuring[x].found, project[ensuring[x].found])
  <2>0. PICK p \in ProjectIds : p = ensuring[x].found /\ Exists(p)
    BY <1>0, <1>1 DEF EnsuringOk, EnsureRecs
  <2>1. PICK rec : p = ensuring[x].found /\ Exists(p) /\ rec = project[p]
    BY <2>0
  <2>2. EnsureDone(x, p, rec)
    BY <1>2, <2>1
  <2>3. /\ ProjectsSound' /\ OneOwner' /\ Exists(p)' /\ (\A q \in ProjectIds : Exists(q) => Exists(q)')
        /\ \A v : SeenOk(v) => SeenOk(v)'
    BY <1>0, <2>1 DEF DeskInv, ProjectsSound, OneOwner, SeenOk, Exists, Roots
  <2>4. ASSUME NEW v, v = [id |-> p, rec |-> rec]
        PROVE  SeenOk(v)'
    <3>1. rec \in ProjectFiles /\ rec.revision \in Nat
      BY <2>1 DEF DeskInv, ProjectsSound, Exists, ProjectFiles
    <3> QED
      BY <1>0, <2>1, <2>4, <3>1 DEF SeenOk, Exists
  <2> QED
    BY <1>0, <2>2, <2>3, <2>4, DoneStep
<1>3. CASE /\ lock' = [lock EXCEPT !["registry"] = None]
           /\ ensuring' = [ensuring EXCEPT ![x] = None]
           /\ UNCHANGED <<call, seen>>
  <2>1. lock["registry"] = x
    BY <1>0, <1>1 DEF EnsuringOk
  <2>2. /\ lock' \in [{"bindings", "registry"} -> Clients \union {None}]
        /\ lock'["bindings"] = lock["bindings"]
        /\ \A l \in {"bindings", "registry"}, y \in Clients \ {x} : lock[l] = y => lock'[l] = y
    BY <1>3, <2>1 DEF DeskInv, Counters
  <2>3. spent' \in [{"calls", "edits", "kills"} -> Nat]
    BY <1>0 DEF DeskInv, Counters
  <2> QED
    BY <1>0, <1>3, <2>2, <2>3, LetGoStep
<1> QED
  BY <1>2, <1>3 DEF EnsureFinds

LEMMA CreatedIs ==
  ASSUME NEW d \in Dirs, NEW rec \in Created(d)
  PROVE  rec \in ProjectFiles /\ rec.root = d /\ rec.aliases = {} /\ ~rec.confirmed
<1> DEFINE here == {s \in Studies : Visible(s) /\ study[s].home = d}
           f == [x \in Studies |-> IF x \in here THEN "migration" ELSE "no"]
<1>1. PICK s \in Studies \union {None} :
         rec = [root |-> d, aliases |-> {}, title |-> "fallback", default |-> s, confirmed |-> FALSE,
                revision |-> 1, studies |-> f]
  BY DEF Created
<1>2. f \in [Studies -> {"no", "migration", "auto", "user"}]
  OBVIOUS
<1> HIDE DEF f
<1> QED
  BY <1>1, <1>2 DEF ProjectFiles

LEMMA EnsureCreatesStep ==
  ASSUME DeskInv, NEW x \in Clients, EnsureCreates(x)
  PROVE  DeskInv'
<1>0. /\ ensuring[x] # None /\ ensuring[x].locked /\ ensuring[x].found = None
      /\ UNCHANGED <<study, binding, confirmed, spent>>
  BY DEF EnsureCreates
<1>1. PICK d \in Dirs : d = ensuring[x].dir /\ \A q \in ProjectIds : Exists(q) => d \notin Roots(q)
  BY <1>0 DEF DeskInv, EnsuringSound, EnsuringOk, EnsureRecs
<1> DEFINE unused == {p \in ProjectIds : ~Exists(p)}
<1>2. unused # {} /\ Min(unused) \in unused
  BY MinIsIn DEF EnsureCreates
<1>3. PICK p \in ProjectIds : p = Min(unused) /\ ~Exists(p)
  BY <1>2
<1>4. PICK rec \in Created(d) : project' = [project EXCEPT ![p] = rec]
  BY <1>1, <1>3 DEF EnsureCreates
<1>5. rec \in ProjectFiles /\ rec.root = d /\ rec.aliases = {} /\ ~rec.confirmed
  BY CreatedIs
<1>6. project'[p] = rec
  BY <1>4 DEF DeskInv, ProjectsSound
<1>7. EnsureDone(x, p, rec)
  BY <1>3, <1>6 DEF EnsureCreates
<1>8. \A q \in ProjectIds, e \in {rec.root} \union rec.aliases : Exists(q) /\ e \in Roots(q) => q = p
  BY <1>1, <1>5
<1>9. /\ ProjectsSound' /\ OneOwner' /\ (\A q \in ProjectIds : Exists(q) => Exists(q)')
      /\ (\A v : SeenOk(v) => SeenOk(v)')
      /\ \A v : v = [id |-> p, rec |-> rec] => SeenOk(v)'
  BY <1>0, <1>3, <1>4, <1>5, <1>8, ProjectStep
<1>10. Exists(p)'
  BY <1>5, <1>6, NoClient DEF Exists
<1> QED
  BY <1>0, <1>7, <1>9, <1>10, DoneStep

LEMMA EnsureAttachesStep ==
  ASSUME DeskInv, NEW x \in Clients, EnsureAttaches(x)
  PROVE  DeskInv'
<1>0. /\ ensuring[x] # None /\ ensuring[x].locked /\ ensuring[x].found = None /\ ensuring[x].attach # None
      /\ UNCHANGED <<study, binding, confirmed, spent>>
  BY DEF EnsureAttaches
<1>1. EnsuringOk(x, ensuring[x])
  BY <1>0 DEF DeskInv, EnsuringSound
<1>2. PICK d \in Dirs, p \in ProjectIds :
        /\ d = ensuring[x].dir /\ p = ensuring[x].attach /\ Exists(p)
        /\ \A q \in ProjectIds : Exists(q) => d \notin Roots(q)
  BY <1>0, <1>1 DEF EnsuringOk, EnsureRecs
<1>3. /\ project[p] \in ProjectFiles
      /\ project[p].confirmed => project[p].default # None /\ <<p, project[p].default>> \in confirmed
  BY <1>2 DEF DeskInv, ProjectsSound, Exists
<1> DEFINE rec == Attached(project[p], d)
<1>4. /\ rec \in ProjectFiles /\ rec.root = d /\ rec.aliases \subseteq Roots(p)
      /\ rec.revision = project[p].revision /\ rec.default = project[p].default
      /\ rec.confirmed = project[p].confirmed
  BY <1>3 DEF Attached, ProjectFiles, Roots
<1>5. Write(p, rec) /\ EnsureDone(x, p, project'[p])
  BY <1>2 DEF EnsureAttaches
<1> HIDE DEF rec
<1>6. PICK new \in ProjectFiles :
         /\ project' = [project EXCEPT ![p] = new] /\ project'[p] = new
         /\ new.root = rec.root /\ new.aliases = rec.aliases
         /\ new.default = rec.default /\ new.confirmed = rec.confirmed
         /\ new = project[p] \/ new.revision > project[p].revision
  BY <1>2, <1>4, <1>5, WriteIs
<1>7. \A q \in ProjectIds, e \in {new.root} \union new.aliases : Exists(q) /\ e \in Roots(q) => q = p
  <2> SUFFICES ASSUME NEW q \in ProjectIds, NEW e \in {new.root} \union new.aliases, Exists(q), e \in Roots(q)
               PROVE  q = p
    OBVIOUS
  <2>1. e \in Dirs
    BY <1>6 DEF ProjectFiles
  <2>2. e # d
    BY <1>2
  <2>3. e \in Roots(p)
    BY <1>4, <1>6, <2>2
  <2> QED
    BY <1>2, <2>1, <2>3 DEF DeskInv, OneOwner
<1>8. /\ ProjectsSound' /\ OneOwner' /\ (\A q \in ProjectIds : Exists(q) => Exists(q)')
      /\ (\A v : SeenOk(v) => SeenOk(v)')
      /\ \A v : v = [id |-> p, rec |-> new] => SeenOk(v)'
  BY <1>0, <1>3, <1>4, <1>6, <1>7, ProjectStep
<1>9. Exists(p)' /\ EnsureDone(x, p, new)
  BY <1>2, <1>5, <1>6, <1>8
<1> QED
  BY <1>0, <1>8, <1>9, DoneStep

-----------------------------------------------------------------------------
(* Hosts *)

LEMMA LookStep ==
  ASSUME DeskInv, NEW h \in Hosts, NEW p \in ProjectIds, Look(h, p)
  PROVE  DeskInv'
<1>1. /\ Exists(p) /\ seen' = [seen EXCEPT ![h] = [id |-> p, rec |-> project[p]]]
      /\ UNCHANGED <<binding, project, lock, call, ensuring, confirmed, spent>>
  BY DEF Look
<1>2. SeenOk([id |-> p, rec |-> project[p]])
  <2>1. project[p] \in ProjectFiles /\ project[p].revision \in Nat
    BY <1>1 DEF DeskInv, ProjectsSound, Exists, ProjectFiles
  <2> QED
    BY <1>1, <2>1 DEF SeenOk
<1>3. SeenSound'
  BY <1>1, <1>2 DEF DeskInv, SeenSound, SeenOk, Exists
<1>4. CallsSound' /\ EnsuringSound'
  BY <1>1 DEF DeskInv, CallsSound, CallOk, EnsuringSound, EnsuringOk, Exists, Roots, Vetted
<1>5. ProjectsSound' /\ OneOwner' /\ BindingsSound' /\ Counters'
  BY <1>1 DEF DeskInv, ProjectsSound, OneOwner, BindingsSound, Counters, Exists, Roots, Vetted
<1> QED
  BY <1>3, <1>4, <1>5 DEF DeskInv

\* What a person may make of a project.
LEMMA EditedIs ==
  ASSUME NEW p, NEW new, project[p] \in ProjectFiles, None \notin Studies,
         project[p].confirmed => project[p].default # None,
         new \in Renamed(project[p]) \union Cleared(project[p]) \union Defaulted(project[p])
                     \union Joined(project[p]) \union Removed(project[p])
  PROVE  SameFolders(new, p) /\ (new.confirmed => new.default # None)
<1>1. PICK rec \in ProjectFiles : rec = project[p]
  OBVIOUS
<1>2. CASE new \in Renamed(rec) \union Cleared(rec)
  <2>1. CASE new = [rec EXCEPT !.title = "user"]
    BY <1>1, <2>1 DEF SameFolders, ProjectFiles
  <2>2. CASE new = [rec EXCEPT !.default = None, !.confirmed = FALSE]
    BY <1>1, <2>2 DEF SameFolders, ProjectFiles
  <2> QED
    BY <1>2, <2>1, <2>2 DEF Renamed, Cleared
<1>3. ASSUME NEW s \in Studies, new = [Linked(rec, s, "user") EXCEPT !.default = s, !.confirmed = TRUE]
      PROVE  SameFolders(new, p) /\ new.default # None
  <2>1. PICK l \in ProjectFiles : l = Linked(rec, s, "user") /\ l.root = rec.root /\ l.aliases = rec.aliases
                                  /\ l.revision = rec.revision
    BY LinkedIs
  <2> QED
    BY <1>1, <1>3, <2>1 DEF SameFolders, ProjectFiles
<1>4. ASSUME NEW s \in Studies, new = Linked(rec, s, "user")
      PROVE  SameFolders(new, p) /\ (new.confirmed => new.default # None)
  BY <1>1, <1>4, LinkedIs DEF SameFolders
<1>5. ASSUME NEW s \in Studies, new = Unlinked(rec, s)
      PROVE  SameFolders(new, p) /\ (new.confirmed => new.default # None)
  <2> DEFINE f == [rec.studies EXCEPT ![s] = "no"]
  <2>1. f \in [Studies -> {"no", "migration", "auto", "user"}]
    BY DEF ProjectFiles
  <2>2. new = IF rec.default = s THEN [rec EXCEPT !.studies = f, !.default = None, !.confirmed = FALSE]
              ELSE [rec EXCEPT !.studies = f]
    BY <1>5 DEF Unlinked
  <2> HIDE DEF f
  <2> QED
    BY <1>1, <2>1, <2>2 DEF SameFolders, ProjectFiles
<1> QED
  BY <1>1, <1>2, <1>3, <1>4, <1>5 DEF Defaulted, Joined, Removed

LEMMA HostEditStep ==
  ASSUME DeskInv, NEW h \in Hosts, NEW p \in ProjectIds, Edit(h, p)
  PROVE  DeskInv'
<1>0. Exists(p) /\ UNCHANGED <<study, binding, lock, call, ensuring>>
  BY DEF Edit
<1>1. spent' \in [{"calls", "edits", "kills"} -> Nat]
  BY DEF Edit, Spend, DeskInv, Counters
<1>2. CASE /\ seen' = [seen EXCEPT ![h] = [id |-> p, rec |-> project[p]]]
           /\ UNCHANGED <<project, confirmed>>
  <2>1. SeenOk([id |-> p, rec |-> project[p]])
    <3>1. project[p] \in ProjectFiles /\ project[p].revision \in Nat
      BY <1>0 DEF DeskInv, ProjectsSound, Exists, ProjectFiles
    <3> QED
      BY <1>0, <3>1 DEF SeenOk
  <2>2. SeenSound'
    BY <1>2, <2>1 DEF DeskInv, SeenSound, SeenOk, Exists
  <2>3. CallsSound' /\ EnsuringSound'
    BY <1>0, <1>2 DEF DeskInv, CallsSound, CallOk, EnsuringSound, EnsuringOk, Exists, Roots, Vetted
  <2>4. ProjectsSound' /\ OneOwner' /\ BindingsSound' /\ Counters'
    BY <1>0, <1>1, <1>2 DEF DeskInv, ProjectsSound, OneOwner, BindingsSound, Counters, Exists, Roots, Vetted
  <2> QED
    BY <2>2, <2>3, <2>4 DEF DeskInv
<1>3. ASSUME NEW rec \in Renamed(project[p]) \union Cleared(project[p]) \union Defaulted(project[p])
                             \union Joined(project[p]) \union Removed(project[p]),
             Write(p, rec),
             confirmed' = IF rec.confirmed THEN confirmed \union {<<p, rec.default>>} ELSE confirmed,
             seen' = [seen EXCEPT ![h] = [id |-> p, rec |-> project'[p]]]
      PROVE  DeskInv'
  <2>1. project[p] \in ProjectFiles /\ (project[p].confirmed => project[p].default # None) /\ None \notin Studies
    BY <1>0, DeskAssumption DEF DeskInv, ProjectsSound, Exists
  <2>2. SameFolders(rec, p) /\ (rec.confirmed => rec.default # None)
    BY <2>1, EditedIs
  <2>3. confirmed \subseteq confirmed' /\ (rec.confirmed => <<p, rec.default>> \in confirmed')
    BY <1>3
  <2>4. /\ ProjectsSound' /\ OneOwner' /\ BindingsSound'
        /\ \A q \in ProjectIds : Exists(q) => Exists(q)'
        /\ \A q \in ProjectIds : Exists(q)' => Exists(q) /\ Roots(q)' = Roots(q)
        /\ \A v : SeenOk(v) => SeenOk(v)'
        /\ \A v : v = [id |-> p, rec |-> project'[p]] => SeenOk(v)'
    BY <1>0, <1>3, <2>2, <2>3, EditStep
  <2>5. SeenSound'
    <3>1. seen' = [g \in Hosts |-> seen'[g]] /\ \A g \in Hosts :
             seen'[g] = IF g = h THEN [id |-> p, rec |-> project'[p]] ELSE seen[g]
      BY <1>3 DEF DeskInv, SeenSound
    <3>2. ASSUME NEW g \in Hosts, seen'[g] # None
          PROVE  SeenOk(seen[g])'
      <4>1. PICK v : v = seen'[g]
        OBVIOUS
      <4>2. SeenOk(v)'
        BY <2>4, <3>1, <3>2, <4>1 DEF DeskInv, SeenSound
      <4> QED
        BY <4>1, <4>2 DEF SeenOk, Exists
    <3> QED
      BY <3>1, <3>2 DEF SeenSound
  <2>6. CallsSound'
    <3>1. /\ CallsSound /\ call' = [d \in Calls |-> call'[d]] /\ h \notin Calls
          /\ \A d \in Calls : call'[d] = call[d]
      BY <1>0, DeskAssumption DEF DeskInv, CallsSound
    <3> QED
      BY <1>0, <2>3, <2>4, <3>1, CallsKept
  <2>7. EnsuringSound'
    <3>1. /\ EnsuringSound /\ ensuring' = [y \in Clients |-> ensuring'[y]] /\ None \notin Clients
          /\ \A d \in Calls : ensuring'[d] # None => call'[d].todo # << >>
      BY <1>0, NoClient DEF DeskInv, EnsuringSound
    <3> QED
      BY <1>0, <2>4, <3>1, EnsuringKept
  <2>8. Counters'
    BY <1>0, <1>1 DEF DeskInv, Counters
  <2> QED
    BY <2>4, <2>5, <2>6, <2>7, <2>8 DEF DeskInv
<1> QED
  BY <1>2, <1>3 DEF Edit

-----------------------------------------------------------------------------
(* Every step *)

LEMMA NextDeskInv == DeskInv /\ [Next]_vars => DeskInv'
<1> SUFFICES ASSUME DeskInv, [Next]_vars PROVE DeskInv'
  OBVIOUS
<1>1. ASSUME NEW c \in Calls, NEW kind \in Kinds, NEW ch \in Chats, NEW s \in Studies \union {None},
             NEW d \in Dirs \union {None}, NEW p \in ProjectIds \union {None}, Begin(c, kind, ch, s, d, p)
      PROVE  DeskInv'
  BY <1>1, BeginStep
<1>2. ASSUME NEW c \in Calls, Step(c) PROVE DeskInv'
  BY <1>2, ResolveNamedStep, ResolveBoundStep, ResolveDefaultStep, ResolveSingleStep, BindLoadStep, BindSaveStep,
     FindProjectStep, LinkStep, RelabelStep, ToolStep DEF Step
<1>3. ASSUME NEW c \in Calls, Kill(c) PROVE DeskInv'
  BY <1>3, KillStep
<1>4. ASSUME NEW x \in Clients, Ensure(x) PROVE DeskInv'
  BY <1>4, EnsureLookStep, EnsureFindsStep, EnsureCreatesStep, EnsureAttachesStep DEF Ensure
<1>5. ASSUME NEW h \in Hosts, NEW p \in ProjectIds, Look(h, p) \/ Edit(h, p) PROVE DeskInv'
  BY <1>5, LookStep, HostEditStep
<1>6. ASSUME NEW h \in Hosts, NEW d \in Dirs, NEW attach \in ProjectIds \union {None}, HostEnsure(h, d, attach)
      PROVE  DeskInv'
  BY <1>6, HostEnsureStep
<1>7. CASE UNCHANGED vars
  BY <1>7 DEF vars, DeskInv, CallsSound, CallOk, ProjectsSound, OneOwner, EnsuringSound, EnsuringOk,
     SeenSound, SeenOk, BindingsSound, Counters, Vetted, Exists, Roots
<1> QED
  BY <1>1, <1>2, <1>3, <1>4, <1>5, <1>6, <1>7 DEF Next

LEMMA DeskSound == Spec => []DeskInv
BY InitDeskInv, NextDeskInv, PTL DEF Spec

-----------------------------------------------------------------------------
(* The theorems *)

\* A folder belongs to one project (OneProjectPerDir): who finds none for it keeps the
\* registry's lock until its own is there (ProjectRegistry.ensure).
THEOREM FoldersHaveOneProject == Spec => []OneProjectPerDir
<1>1. DeskInv => OneProjectPerDir
  <2> SUFFICES ASSUME DeskInv, NEW d \in Dirs
               PROVE  Cardinality({p \in ProjectIds : Exists(p) /\ d \in Roots(p)}) <= 1
    BY DEF OneProjectPerDir
  <2> DEFINE ps == {p \in ProjectIds : Exists(p) /\ d \in Roots(p)}
  <2>1. \A p, q \in ps : p = q
    BY DEF DeskInv, OneOwner
  <2>2. CASE ps = {}
    BY <2>2, FS_EmptySet
  <2>3. ASSUME NEW p \in ps
        PROVE  Cardinality(ps) <= 1
    <3>1. ps = {p}
      BY <2>1
    <3> HIDE DEF ps
    <3>2. Cardinality({p}) = 1
      BY FS_Singleton
    <3> QED
      BY <3>1, <3>2
  <2> QED
    BY <2>2, <2>3
<1> QED
  BY <1>1, DeskSound, PTL

\* A host that sees the current revision of a project sees the project (RevisionTells):
\* no change goes uncounted, whoever makes it.
THEOREM RevisionsAreCounted == Spec => []RevisionTells
<1>1. DeskInv => RevisionTells
  BY DEF DeskInv, SeenSound, SeenOk, RevisionTells
<1> QED
  BY <1>1, DeskSound, PTL

\* A chat is put on a project's default only if a person confirmed it (InferredIsConfirmed),
\* though the call resolves it, waits for the lock and binds the chat in different steps.
THEOREM DefaultsAreConfirmed == Spec => []InferredIsConfirmed
<1>1. DeskInv => InferredIsConfirmed
  BY DEF DeskInv, BindingsSound, Vetted, InferredIsConfirmed
<1> QED
  BY <1>1, DeskSound, PTL

LEMMA BindingStep ==
  ASSUME [Next]_vars, binding' # binding
  PROVE  \E c \in Calls : BindSave(c)
BY DEF Next, Step, Ensure, Begin, ResolveNamed, ResolveBound, ResolveDefault, ResolveSingle, BindLoad, FindProject,
   Link, Relabel, Home, Work, Start, Rebind, Kill, EnsureLook, EnsureFinds, EnsureCreates, EnsureAttaches,
   Look, Edit, HostEnsure, vars

\* A chat changes its study by its own calls only, or loses one that has no file
\* (OthersKeepTheirs): whoever rewrites all bindings read them under the lock.
THEOREM BindingsAreKept == Spec => OthersKeepTheirs
<1>1. DeskInv /\ [Next]_vars =>
        \A ch \in Chats : binding'[ch] # binding[ch] =>
           \/ binding'[ch] = Unbound /\ ~study[binding[ch].study].saved
           \/ \E c \in Calls :
                /\ At(c, "save") /\ call[c].chat = ch
                /\ \/ binding'[ch].study = call[c].study
                   \/ binding'[ch] = Unbound /\ ~study[call[c].study].saved
  <2> SUFFICES ASSUME DeskInv, [Next]_vars, NEW ch \in Chats, binding'[ch] # binding[ch]
               PROVE  \/ binding'[ch] = Unbound /\ ~study[binding[ch].study].saved
                      \/ \E c \in Calls :
                           /\ At(c, "save") /\ call[c].chat = ch
                           /\ \/ binding'[ch].study = call[c].study
                              \/ binding'[ch] = Unbound /\ ~study[call[c].study].saved
    OBVIOUS
  <2>1. PICK c \in Calls : BindSave(c)
    BY BindingStep
  <2> DEFINE own == [study |-> call[c].study, by |-> call[c].rule]
             b == [binding EXCEPT ![call[c].chat] = own]
  <2>2. call[c].chat \in Chats /\ own \in Bindings /\ binding' = Compacted(b)
    BY <2>1, BindSaveIs
  <2>3. binding \in [Chats -> Bindings]
    BY DEF DeskInv, BindingsSound
  <2>4. /\ b \in [Chats -> Bindings] /\ b[call[c].chat] = own
        /\ ch # call[c].chat => b[ch] = binding[ch]
    BY <2>2, <2>3
  <2> HIDE DEF b
  <2>5. binding'[ch] # b[ch] => binding'[ch] = Unbound /\ ~study[b[ch].study].saved
    BY <2>2, <2>4, CompactedIs
  <2>6. CASE ch = call[c].chat
    <3>1. At(c, "save") /\ own.study = call[c].study
      BY <2>1 DEF BindSave
    <3> QED
      BY <2>4, <2>5, <2>6, <3>1
  <2>7. CASE ch # call[c].chat
    BY <2>4, <2>5, <2>7
  <2> QED
    BY <2>6, <2>7
<1> QED
  BY <1>1, DeskSound, PTL DEF Spec, OthersKeepTheirs

LEMMA ProjectWriteStep ==
  ASSUME [Next]_vars, project' # project
  PROVE  \/ \E c \in Calls : Link(c) \/ Relabel(c)
         \/ \E x \in Clients : EnsureCreates(x) \/ EnsureAttaches(x)
         \/ \E h \in Hosts, p \in ProjectIds : Edit(h, p)
BY DEF Next, Step, Ensure, Begin, ResolveNamed, ResolveBound, ResolveDefault, ResolveSingle, BindLoad, BindSave,
   FindProject, Home, Work, Start, Rebind, Kill, EnsureLook, EnsureFinds, Look, HostEnsure, vars

\* Calls never move a default that a person chose (TheirDefaultStays): a suggestion
\* is made only where there is no default.
THEOREM ChosenDefaultsStay == Spec => TheirDefaultStays
<1>1. DeskInv /\ [Next]_vars =>
        \A p \in ProjectIds : Exists(p) /\ project[p].confirmed /\ project'[p].default # project[p].default
           => spent'.edits > spent.edits
  <2> SUFFICES ASSUME DeskInv, [Next]_vars, NEW p \in ProjectIds, Exists(p), project[p].confirmed,
                      project'[p].default # project[p].default
               PROVE  spent'.edits > spent.edits
    OBVIOUS
  <2>1. project \in [ProjectIds -> ProjectFiles \union {None}] /\ project[p].default # None
    BY DEF DeskInv, ProjectsSound
  \* A write that keeps the default of the project it writes keeps that of p.
  <2>2. ASSUME NEW q \in ProjectIds, Exists(q), NEW rec \in ProjectFiles, rec.revision = project[q].revision,
               q = p => rec.default = project[p].default, Write(q, rec)
        PROVE  FALSE
    BY <2>1, <2>2, WriteIs
  <2>3. ASSUME NEW c \in Calls, Link(c) PROVE FALSE
    <3>1. call[c].pid # None /\ CallOk(c, call[c])
      BY <2>3 DEF Link, DeskInv, CallsSound
    <3>2. PICK q \in ProjectIds, s \in Studies \union {None} : q = call[c].pid /\ Exists(q) /\ s = call[c].study
      BY <3>1 DEF CallOk, CallRecs
    <3>3. project[q] \in ProjectFiles
      BY <2>1, <3>2 DEF Exists
    <3> DEFINE linked == Linked(project[q], s, "auto")
    <3>4. linked \in ProjectFiles /\ linked.revision = project[q].revision /\ linked.default = project[q].default
      BY <3>3, LinkedIs
    <3>5. Write(q, Suggested(linked, s))
      BY <2>3, <3>2 DEF Link
    <3> HIDE DEF linked
    <3>6. /\ Suggested(linked, s) \in ProjectFiles /\ Suggested(linked, s).revision = linked.revision
          /\ linked.default # None => Suggested(linked, s) = linked
      BY <3>4, SuggestedIs
    <3> QED
      BY <2>1, <2>2, <3>2, <3>4, <3>5, <3>6
  <2>4. ASSUME NEW c \in Calls, Relabel(c) PROVE FALSE
    <3>1. CallOk(c, call[c]) /\ None \notin ProjectIds
      BY NoClient DEF DeskInv, CallsSound
    <3>2. CASE call[c].pid = None
      <4>1. \A e : [project EXCEPT ![None] = e][p] = project[p]
        BY <2>1, <3>1
      <4> QED
        BY <2>4, <3>2, <4>1 DEF Relabel, Write
    <3>3. CASE call[c].pid # None
      <4>1. PICK q \in ProjectIds : q = call[c].pid /\ Exists(q)
        BY <3>1, <3>3 DEF CallOk, CallRecs
      <4> DEFINE f == [project[q].studies EXCEPT ![call[c].study] = "auto"]
                 rec == [project[q] EXCEPT !.studies = f]
      <4>2. project[q] \in ProjectFiles
        BY <2>1, <4>1 DEF Exists
      <4>3. f \in [Studies -> {"no", "migration", "auto", "user"}]
        BY <4>2 DEF ProjectFiles
      <4>4. Write(q, rec)
        BY <2>4, <4>1 DEF Relabel
      <4> HIDE DEF f
      <4>5. rec \in ProjectFiles /\ rec.revision = project[q].revision /\ rec.default = project[q].default
        BY <4>2, <4>3 DEF ProjectFiles
      <4> HIDE DEF rec
      <4> QED
        BY <2>2, <4>1, <4>4, <4>5
    <3> QED
      BY <3>2, <3>3
  <2>5. ASSUME NEW x \in Clients, EnsureCreates(x) PROVE FALSE
    <3> DEFINE unused == {q \in ProjectIds : ~Exists(q)}
    <3>1. unused # {} /\ Min(unused) \in unused
      BY <2>5, MinIsIn DEF EnsureCreates
    <3>2. PICK rec : project' = [project EXCEPT ![Min(unused)] = rec]
      BY <2>5 DEF EnsureCreates
    <3> HIDE DEF unused
    <3>3. Min(unused) # p
      BY <3>1 DEF unused
    <3> QED
      BY <2>1, <3>2, <3>3
  <2>6. ASSUME NEW x \in Clients, EnsureAttaches(x) PROVE FALSE
    <3>1. EnsuringOk(x, ensuring[x]) /\ ensuring[x].attach # None
      BY <2>6 DEF EnsureAttaches, DeskInv, EnsuringSound
    <3>2. PICK d \in Dirs, q \in ProjectIds : d = ensuring[x].dir /\ q = ensuring[x].attach /\ Exists(q)
      BY <3>1 DEF EnsuringOk, EnsureRecs
    <3> DEFINE rec == Attached(project[q], d)
    <3>3. Write(q, rec)
      BY <2>6, <3>2 DEF EnsureAttaches
    <3>4. project[q] \in ProjectFiles
      BY <2>1, <3>2 DEF Exists
    <3>5. rec \in ProjectFiles /\ rec.revision = project[q].revision /\ rec.default = project[q].default
      BY <3>4 DEF Attached, ProjectFiles
    <3> HIDE DEF rec
    <3> QED
      BY <2>2, <3>2, <3>3, <3>5
  <2>7. ASSUME NEW h \in Hosts, NEW q \in ProjectIds, Edit(h, q) PROVE spent'.edits > spent.edits
    BY <2>7 DEF Edit, Spend, DeskInv, Counters
  <2>8. project' # project
    OBVIOUS
  <2> QED
    BY <2>3, <2>4, <2>5, <2>6, <2>7, <2>8, ProjectWriteStep
<1> QED
  BY <1>1, DeskSound, PTL DEF Spec, TheirDefaultStays

-----------------------------------------------------------------------------
(* Typing of the stores *)

LEMMA SavedIs ==
  ASSUME study \in [Studies -> StudyFiles], NEW s, NEW home, s \in Studies => home \in Dirs \union {None}, Saved(s, home)
  PROVE  study' \in [Studies -> StudyFiles]
<1> DEFINE f == [study[s] EXCEPT !.saved = TRUE, !.home = home]
<1>1. study' = [study EXCEPT ![s] = f]
  BY DEF Saved
<1>2. s \in Studies => f \in StudyFiles
  BY DEF StudyFiles
<1> HIDE DEF f
<1> QED
  BY <1>1, <1>2

LEMMA StudiesTyped ==
  ASSUME DeskInv, [Next]_vars, study \in [Studies -> StudyFiles]
  PROVE  study' \in [Studies -> StudyFiles]
<1>1. \A s \in Studies : study[s].home \in Dirs \union {None}
  BY DEF StudyFiles
<1>2. ASSUME NEW c \in Calls, Home(c) PROVE study' \in [Studies -> StudyFiles]
  <2>1. call[c].ws \in Dirs \union {None}
    BY DEF DeskInv, CallsSound, CallOk, CallRecs
  <2> QED
    BY <1>2, <2>1, SavedIs DEF Home
<1>3. ASSUME NEW c \in Calls, Work(c) PROVE study' \in [Studies -> StudyFiles]
  <2> DEFINE s == call[c].study
  <2>1. CASE study' = [study EXCEPT ![s].archived = TRUE]
    <3> DEFINE f == [study[s] EXCEPT !.archived = TRUE]
    <3>1. study' = [study EXCEPT ![s] = f] /\ (s \in Studies => f \in StudyFiles)
      BY <2>1 DEF StudyFiles
    <3> HIDE DEF f, s
    <3> QED
      BY <3>1
  <2>2. CASE Saved(s, study[s].home)
    BY <1>1, <2>2, SavedIs
  <2> QED
    BY <1>3, <2>1, <2>2 DEF Work
<1>4. ASSUME NEW c \in Calls, Start(c) PROVE study' \in [Studies -> StudyFiles]
  <2>1. call[c].ws \in Dirs \union {None}
    BY DEF DeskInv, CallsSound, CallOk, CallRecs
  <2>2. PICK given \in Dirs \union {None} : \E home \in {given, study[call[c].named].home} : Saved(call[c].named, home)
    BY <1>4, <2>1 DEF Start
  <2> QED
    BY <1>1, <2>2, SavedIs
<1> QED
  BY <1>2, <1>3, <1>4 DEF Next, Step, Ensure, Begin, ResolveNamed, ResolveBound, ResolveDefault, ResolveSingle, BindLoad,
     BindSave, FindProject, Link, Relabel, Rebind, Kill, EnsureLook, EnsureFinds, EnsureCreates, EnsureAttaches,
     Look, Edit, HostEnsure, vars

\* Bindings, projects, studies and locks take only values of their files' schemas (TypeOK).
THEOREM DeskTyping == Spec => []TypeOK
<1>1. Init => study \in [Studies -> StudyFiles]
  BY DEF Init
<1>2. DeskInv /\ study \in [Studies -> StudyFiles] /\ [Next]_vars => (study \in [Studies -> StudyFiles])'
  BY StudiesTyped
<1>3. DeskInv /\ study \in [Studies -> StudyFiles] => TypeOK
  BY DEF DeskInv, BindingsSound, ProjectsSound, Counters, TypeOK
<1> QED
  BY <1>1, <1>2, <1>3, DeskSound, PTL DEF Spec
=============================================================================
