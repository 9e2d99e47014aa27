---------------------------- MODULE AccessProofs ----------------------------
(***************************************************************************)
(* Theorems about Access and the Shares it extends: owners keep their      *)
(* files, filters keep their names apart and what was last said of them,   *)
(* tokens end when they are ended.                                         *)
(***************************************************************************)
EXTENDS Access, FiniteSetTheorems, SequenceTheorems, WellFoundedInduction, TLAPS

-----------------------------------------------------------------------------
(* Owners.                                                                 *)

PrioritiesFit == \A r \in rules : r.priority \in 0..TopPriority

LEMMA OwnerDecides ==
  ASSUME PrioritiesFit, NEW u, NEW f, NEW n \in Permissions, NEW G, OwnerRule(u, f) \in rules
  PROVE  Decide(Matching(rules, [who |-> u, groups |-> G], f), n)
  <1> DEFINE o == OwnerRule(u, f)
             F == Fitting(Matching(rules, [who |-> u, groups |-> G], f), n)
  <1>1. o \in F /\ o.allow /\ o.priority = TopPriority
    BY DEF OwnerRule, Matching, Fitting, Covers
  <1>2. \A s \in F : s.priority \in 0..TopPriority
    BY DEF PrioritiesFit, Matching, Fitting
  <1>3. \A s \in F : Ahead(o, s)
    BY <1>1, <1>2, AccessAssumption DEF Ahead
  <1> DEFINE first == CHOOSE r \in F : \A s \in F : Ahead(r, s)
  <1>4. first \in F /\ Ahead(first, o)
    BY <1>1, <1>3
  <1>5. first.allow
    BY <1>1, <1>2, <1>4, AccessAssumption DEF Ahead
  <1>6. QED
    BY <1>1, <1>5 DEF Decide

\* An owner is never shut out of the file, whatever rules come after.
THEOREM OwnersKeepAccess == Spec => []OwnerKeepsAccess
  <1>1. Init => PrioritiesFit
    BY AccessAssumption DEF Init, PrioritiesFit, OwnerRule
  <1>2. PrioritiesFit /\ [Next]_vars => PrioritiesFit'
    <2> SUFFICES ASSUME PrioritiesFit, [Next]_vars PROVE PrioritiesFit'
      OBVIOUS
    <2> USE DEF PrioritiesFit
    <2>1. ASSUME NEW p \in Requests, OwnFile(p) PROVE PrioritiesFit'
      BY <2>1, AccessAssumption DEF OwnFile, Adds, OwnerRule
    <2>2. CASE AddRule
      <3>1. PICK u \in Users \cup Groups, f \in There, o \in Offers :
              rules' = rules \cup {[subject |-> u, file |-> f, mask |-> o.mask,
                                    allow |-> o.allow, priority |-> o.priority]}
        BY <2>2 DEF AddRule, Adds
      <3>2. o.priority \in 0..TopPriority
        BY AccessAssumption
      <3>3. QED
        BY <3>1, <3>2
    <2>3. CASE UNCHANGED rules
      BY <2>3
    <2>4. QED
      BY <2>1, <2>2, <2>3
         DEF Next, AccessStep, ChangeGroup, Arrive, ArriveOpen, ArriveUpload, ArriveList,
             ArriveAdmin, MatchRules, CountRules, ResolveFilter, CreateFile, IssueFile,
             Respond, accessVars, vars
  <1>3. PrioritiesFit => OwnerKeepsAccess
    BY OwnerDecides DEF OwnerKeepsAccess
  <1>4. QED
    BY <1>1, <1>2, <1>3, PTL DEF Spec

-----------------------------------------------------------------------------
(* What the requests carry.                                                *)

AskOps == DOMAIN AccessSteps
ShareReq ==
  [op : OwnOps \cup {None}, at : Nat, who : Users \cup {None}, id : FilterIds \cup Tokens \cup {None},
   name : Names \cup {None}, def : Definitions \cup {None}, until : Nat \cup {None},
   row : FilterRow \cup {None}, want : Kinds \cup {None}, alone : BOOLEAN, late : BOOLEAN]
ShareReqOk(c) ==
  /\ c \in ShareReq
  /\ c.op \in OwnOps => c.at \in DOMAIN Steps[c.op]
  /\ c.op \in {"create", "update", "delete", "issue", "revoke"} => c.who \in Users
  /\ c.op = "create" => c.name \in Names /\ c.def \in Definitions
  /\ c.op \in {"update", "delete", "issue"} => c.id \in FilterIds
  /\ c.op = "issue" => c.until \in Nat
  /\ c.op \in {"revoke", "use"} => c.id \in Tokens
  /\ (c.op = "update" /\ c.at > 1) => c.row \in FilterRow
\* A request that asks for decisions, as far as it matters here.
AskFields == {"op", "at", "who", "id", "until", "todo", "yes", "counting", "ever", "always", "raced"}
AskReqOk(c) ==
  /\ AskFields \subseteq DOMAIN c
  /\ c.op \in AskOps /\ c.at \in DOMAIN AccessSteps[c.op]
  /\ c.who \in Users \cup {Anonymous}
  /\ c.op = "admin" => c.until \in Nat /\ c.id \in Files

WordRow == [is : {"new", "kept", "gone", "any"}, row : FilterRow \cup {None}]
Shape ==
  /\ req = [p \in Requests |-> req[p]]
  /\ \A p \in Requests : ShareReqOk(req[p]) \/ AskReqOk(req[p])
  /\ filter \in [FilterIds -> FilterRow \cup {None}]
  /\ token \in [Tokens -> TokenRow \cup {None}]
  /\ now \in 0..MaxTime /\ started \in 0..MaxRequests
  /\ word \in [FilterIds -> WordRow]
  /\ \A q \in FilterIds : word[q].is # "new" => word[q].row \in FilterRow
  /\ revoked \in [Tokens -> Nat]
  /\ files \in Seq(Files)

LEMMA OpsApart ==
  /\ OwnOps = {"create", "update", "delete", "issue", "revoke", "use"}
  /\ AskOps = {"open", "upload", "list", "admin"}
  /\ None \notin OwnOps /\ None \notin AskOps
  BY NoneAssumption, NoneAskedAssumption DEF OwnOps, Steps, AskOps, AccessSteps

LEMMA StepNames ==
  /\ DOMAIN Steps["create"] = {1, 2} /\ Steps["create"][1] = "taken" /\ Steps["create"][2] = "insert"
  /\ DOMAIN Steps["update"] = {1, 2, 3} /\ Steps["update"][1] = "read"
  /\ Steps["update"][2] = "clash" /\ Steps["update"][3] = "write"
  /\ DOMAIN Steps["delete"] = {1, 2} /\ Steps["delete"][1] = "read" /\ Steps["delete"][2] = "delete"
  /\ DOMAIN Steps["issue"] = {1} /\ Steps["issue"][1] = "issue"
  /\ DOMAIN Steps["revoke"] = {1, 2} /\ Steps["revoke"][1] = "own" /\ Steps["revoke"][2] = "revoke"
  /\ DOMAIN Steps["use"] = {1, 2, 3} /\ Steps["use"][1] = "verify"
  /\ Steps["use"][2] = "target" /\ Steps["use"][3] = "reply"
  BY DEF Steps, CreateSteps, UpdateSteps, DeleteSteps, IssueSteps, RevokeSteps, UseSteps

LEMMA AskStepNames ==
  /\ DOMAIN AccessSteps["open"] = {1, 2} /\ AccessSteps["open"][1] = "rules" /\ AccessSteps["open"][2] = "reply"
  /\ DOMAIN AccessSteps["upload"] = {1, 2, 3} /\ AccessSteps["upload"][1] = "file"
  /\ AccessSteps["upload"][2] = "rule" /\ AccessSteps["upload"][3] = "reply"
  /\ DOMAIN AccessSteps["list"] = {1, 2, 3} /\ AccessSteps["list"][1] = "resolve"
  /\ AccessSteps["list"][2] = "rules" /\ AccessSteps["list"][3] = "reply"
  /\ DOMAIN AccessSteps["admin"] = {1, 2, 3} /\ AccessSteps["admin"][1] = "rules"
  /\ AccessSteps["admin"][2] = "issue" /\ AccessSteps["admin"][3] = "reply"
  BY DEF AccessSteps, OpenSteps, UploadSteps, ListSteps, AdminSteps

LEMMA NoneIsNoStep ==
  None \notin {"taken", "insert", "read", "clash", "write", "delete", "issue", "own", "revoke",
               "verify", "target", "reply", "rules", "resolve", "file", "rule"}
  <1>1. None \notin {"taken", "insert", "read", "clash", "write", "delete"}
    BY NoneAssumption, StepNames, OpsApart DEF OwnOps
  <1>2. None \notin {"issue", "own", "revoke", "verify", "target", "reply"}
    BY NoneAssumption, StepNames, OpsApart DEF OwnOps
  <1>3. None \notin {"rules", "resolve", "file", "rule"}
    BY NoneAskedAssumption DEF AccessSteps, OpenSteps, UploadSteps, ListSteps
  <1>4. QED
    BY <1>1, <1>2, <1>3

\* The step a request is at tells what it does and what it carries.
LEMMA StepTells ==
  ASSUME Shape, NEW p \in Requests, Step(p) # None
  PROVE  /\ req[p].op \in OwnOps /\ ShareReqOk(req[p])
         /\ Step(p) = "taken" => req[p].op = "create" /\ req[p].at = 1
         /\ Step(p) = "insert" => req[p].op = "create" /\ req[p].at = 2
         /\ Step(p) = "read" => req[p].op \in Writes /\ req[p].at = 1
         /\ Step(p) = "clash" => req[p].op = "update" /\ req[p].at = 2
         /\ Step(p) = "write" => req[p].op = "update" /\ req[p].at = 3
         /\ Step(p) = "delete" => req[p].op = "delete" /\ req[p].at = 2
         /\ Step(p) = "issue" => req[p].op = "issue" /\ req[p].at = 1
         /\ Step(p) = "own" => req[p].op = "revoke" /\ req[p].at = 1
         /\ Step(p) = "revoke" => req[p].op = "revoke" /\ req[p].at = 2
         /\ Step(p) = "verify" => req[p].op = "use" /\ req[p].at = 1
         /\ Step(p) = "target" => req[p].op = "use" /\ req[p].at = 2
         /\ Step(p) = "reply" => req[p].op = "use" /\ req[p].at = 3
  <1>1. req[p].op \in OwnOps /\ Step(p) = Steps[req[p].op][req[p].at]
    BY DEF Step
  <1>2. ShareReqOk(req[p])
    BY <1>1, OpsApart DEF Shape, AskReqOk
  <1>3. req[p].at \in DOMAIN Steps[req[p].op]
    BY <1>1, <1>2 DEF ShareReqOk
  <1>4. QED
    BY <1>1, <1>2, <1>3, OpsApart, StepNames DEF Writes

LEMMA AskTells ==
  ASSUME Shape, NEW p \in Requests, AStep(p) # None
  PROVE  req[p].op \in AskOps /\ AskReqOk(req[p])
  BY OpsApart DEF AStep, Shape, ShareReqOk, ShareReq, AskOps

ReqsOk == /\ req = [p \in Requests |-> req[p]]
          /\ \A p \in Requests : ShareReqOk(req[p]) \/ AskReqOk(req[p])

LEMMA IdleOk == ShareReqOk(Idle)
  BY OpsApart DEF ShareReqOk, ShareReq, Idle

LEMMA OneReq ==
  ASSUME Shape, NEW p \in Requests, NEW c, ShareReqOk(c) \/ AskReqOk(c),
         req' = [req EXCEPT ![p] = c]
  PROVE  ReqsOk'
  BY DEF Shape, ReqsOk

LEMMA StopOk == ASSUME Shape, NEW p \in Requests, Stop(p) PROVE ReqsOk'
  BY IdleOk, OneReq DEF Stop

LEMMA AloneOk ==
  ASSUME NEW c, ShareReqOk(c), NEW b \in BOOLEAN
  PROVE  ShareReqOk([c EXCEPT !.alone = b])
  BY DEF ShareReqOk, ShareReq

LEMMA ArrivesOk ==
  ASSUME Shape, NEW p \in Requests, NEW c, ShareReqOk(c), Arrives(p, c)
  PROVE  ReqsOk'
  <1>1. ASSUME NEW r \in Requests, r # p PROVE ShareReqOk(req'[r]) \/ AskReqOk(req'[r])
    <2>1. CASE c.op \in Writes /\ r \in Meets(p, c.id)
      <3>1. req[r].op \in OwnOps
        BY <2>1, OpsApart DEF Meets, Writes
      <3>2. ShareReqOk(req[r])
        BY <3>1, OpsApart DEF Shape, AskReqOk
      <3>3. req'[r] = [req[r] EXCEPT !.alone = FALSE]
        BY <1>1, <2>1 DEF Arrives
      <3>4. QED
        BY <3>2, <3>3, AloneOk
    <2>2. CASE ~(c.op \in Writes /\ r \in Meets(p, c.id))
      BY <1>1, <2>2 DEF Arrives, Shape
    <2>3. QED
      BY <2>1, <2>2
  <1>2. ShareReqOk(req'[p])
    <2>1. req'[p] = [c EXCEPT !.alone = (c.op \notin Writes) \/ Meets(p, c.id) = {}]
      BY DEF Arrives
    <2>2. ((c.op \notin Writes) \/ Meets(p, c.id) = {}) \in BOOLEAN
      OBVIOUS
    <2>3. QED
      BY <2>1, <2>2, AloneOk
  <1>3. req' = [q \in Requests |-> req'[q]]
    BY DEF Arrives
  <1>4. QED
    BY <1>1, <1>2, <1>3 DEF ReqsOk

LEMMA AskOk ==
  ASSUME NEW op \in OwnOps, NEW u \in Users \cup {None}
  PROVE  /\ Ask(op, u) \in ShareReq
         /\ Ask(op, u).op = op /\ Ask(op, u).at = 1 /\ Ask(op, u).who = u
  <1>1. Idle \in ShareReq
    BY DEF Idle, ShareReq
  <1>2. QED
    BY <1>1 DEF Ask, ShareReq

LEMMA FirstStep == ASSUME NEW op \in OwnOps PROVE 1 \in DOMAIN Steps[op]
  BY OpsApart, StepNames

\* A request as it arrives.
New(c) ==
  /\ ShareReqOk(c) /\ c.op \in OwnOps /\ c.at = 1
  /\ c.op \in Writes => Made(c.id)
  /\ c.op \in {"revoke", "use"} => token[c.id] # None
  /\ c.op = "use" => c.late = Ended(c.id)
Comes(p) == \E c : New(c) /\ Arrives(p, c)
SharesArrive(p) ==
  \/ ArriveCreate(p) \/ ArriveUpdate(p) \/ ArriveDelete(p)
  \/ ArriveIssue(p) \/ ArriveRevoke(p) \/ ArriveUse(p)

LEMMA ArrivalsAreNew ==
  ASSUME Shape, NEW p \in Requests, SharesArrive(p)
  PROVE  Comes(p)
  <1>a. Untils \subseteq Nat
    BY SharesAssumption DEF Untils, Shape
  <1>1. CASE ArriveCreate(p)
    <2>1. PICK u \in Users, n \in Names, d \in Definitions, e \in Untils \cup {None} :
            Arrives(p, [Ask("create", u) EXCEPT !.name = n, !.def = d, !.until = e])
      BY <1>1 DEF ArriveCreate
    <2> DEFINE c == [Ask("create", u) EXCEPT !.name = n, !.def = d, !.until = e]
    <2>2. Ask("create", u) \in ShareReq /\ Ask("create", u).op = "create"
          /\ Ask("create", u).at = 1 /\ Ask("create", u).who = u /\ 1 \in DOMAIN Steps["create"]
      BY AskOk, FirstStep, OpsApart
    <2>4. c \in ShareReq
      BY <1>a, <2>2 DEF ShareReq
    <2>5. c.op = "create" /\ c.at = 1 /\ c.who = u /\ c.name = n /\ c.def = d
      BY <2>2 DEF ShareReq
    <2> HIDE DEF c
    <2>6. ShareReqOk(c)
      BY <1>a, <2>2, <2>4, <2>5 DEF ShareReqOk
    <2>7. New(c)
      BY <2>5, <2>6, OpsApart DEF New, Writes
    <2>8. QED
      BY <2>1, <2>7 DEF Comes, c
  <1>2. CASE ArriveUpdate(p)
    <2>1. PICK u \in Users, q \in FilterIds, n \in Names \cup {None}, d \in Definitions \cup {None} :
            Made(q) /\ Arrives(p, [Ask("update", u) EXCEPT !.id = q, !.name = n, !.def = d])
      BY <1>2 DEF ArriveUpdate
    <2> DEFINE c == [Ask("update", u) EXCEPT !.id = q, !.name = n, !.def = d]
    <2>2. Ask("update", u) \in ShareReq /\ Ask("update", u).op = "update"
          /\ Ask("update", u).at = 1 /\ Ask("update", u).who = u /\ 1 \in DOMAIN Steps["update"]
      BY AskOk, FirstStep, OpsApart
    <2>4. c \in ShareReq
      BY <2>2 DEF ShareReq
    <2>5. c.op = "update" /\ c.at = 1 /\ c.who = u /\ c.id = q
      BY <2>2 DEF ShareReq
    <2> HIDE DEF c
    <2>6. ShareReqOk(c)
      BY <2>2, <2>4, <2>5 DEF ShareReqOk
    <2>7. New(c)
      BY <2>1, <2>5, <2>6, OpsApart DEF New, Writes
    <2>8. QED
      BY <2>1, <2>7 DEF Comes, c
  <1>3. CASE ArriveDelete(p)
    <2>1. PICK u \in Users, q \in FilterIds :
            Made(q) /\ Arrives(p, [Ask("delete", u) EXCEPT !.id = q])
      BY <1>3 DEF ArriveDelete
    <2> DEFINE c == [Ask("delete", u) EXCEPT !.id = q]
    <2>2. Ask("delete", u) \in ShareReq /\ Ask("delete", u).op = "delete"
          /\ Ask("delete", u).at = 1 /\ Ask("delete", u).who = u /\ 1 \in DOMAIN Steps["delete"]
      BY AskOk, FirstStep, OpsApart
    <2>4. c \in ShareReq
      BY <2>2 DEF ShareReq
    <2>5. c.op = "delete" /\ c.at = 1 /\ c.who = u /\ c.id = q
      BY <2>2 DEF ShareReq
    <2> HIDE DEF c
    <2>6. ShareReqOk(c)
      BY <2>2, <2>4, <2>5 DEF ShareReqOk
    <2>7. New(c)
      BY <2>1, <2>5, <2>6, OpsApart DEF New, Writes
    <2>8. QED
      BY <2>1, <2>7 DEF Comes, c
  <1>4. CASE ArriveIssue(p)
    <2>1. PICK u \in Users, q \in FilterIds, e \in Untils :
            Arrives(p, [Ask("issue", u) EXCEPT !.id = q, !.until = e])
      BY <1>4 DEF ArriveIssue
    <2> DEFINE c == [Ask("issue", u) EXCEPT !.id = q, !.until = e]
    <2>2. Ask("issue", u) \in ShareReq /\ Ask("issue", u).op = "issue"
          /\ Ask("issue", u).at = 1 /\ Ask("issue", u).who = u /\ 1 \in DOMAIN Steps["issue"]
      BY AskOk, FirstStep, OpsApart
    <2>4. c \in ShareReq
      BY <1>a, <2>2 DEF ShareReq
    <2>5. c.op = "issue" /\ c.at = 1 /\ c.who = u /\ c.id = q /\ c.until = e
      BY <2>2 DEF ShareReq
    <2> HIDE DEF c
    <2>6. ShareReqOk(c)
      BY <1>a, <2>2, <2>4, <2>5 DEF ShareReqOk
    <2>7. New(c)
      BY <2>5, <2>6, OpsApart DEF New, Writes
    <2>8. QED
      BY <2>1, <2>7 DEF Comes, c
  <1>5. CASE ArriveRevoke(p)
    <2>1. PICK u \in Users, t \in Tokens :
            token[t] # None /\ Arrives(p, [Ask("revoke", u) EXCEPT !.id = t])
      BY <1>5 DEF ArriveRevoke
    <2> DEFINE c == [Ask("revoke", u) EXCEPT !.id = t]
    <2>2. Ask("revoke", u) \in ShareReq /\ Ask("revoke", u).op = "revoke"
          /\ Ask("revoke", u).at = 1 /\ Ask("revoke", u).who = u /\ 1 \in DOMAIN Steps["revoke"]
      BY AskOk, FirstStep, OpsApart
    <2>4. c \in ShareReq
      BY <2>2 DEF ShareReq
    <2>5. c.op = "revoke" /\ c.at = 1 /\ c.who = u /\ c.id = t
      BY <2>2 DEF ShareReq
    <2> HIDE DEF c
    <2>6. ShareReqOk(c)
      BY <2>2, <2>4, <2>5 DEF ShareReqOk
    <2>7. New(c)
      BY <2>1, <2>5, <2>6, OpsApart DEF New, Writes
    <2>8. QED
      BY <2>1, <2>7 DEF Comes, c
  <1>6. CASE ArriveUse(p)
    <2>1. PICK t \in Tokens, k \in Kinds :
            token[t] # None /\ Arrives(p, [Ask("use", None) EXCEPT !.id = t, !.want = k, !.late = Ended(t)])
      BY <1>6 DEF ArriveUse
    <2> DEFINE c == [Ask("use", None) EXCEPT !.id = t, !.want = k, !.late = Ended(t)]
    <2>2. Ask("use", None) \in ShareReq /\ Ask("use", None).op = "use"
          /\ Ask("use", None).at = 1 /\ Ask("use", None).who = None /\ 1 \in DOMAIN Steps["use"]
      BY AskOk, FirstStep, OpsApart
    <2>3. Ended(t) \in BOOLEAN
      BY <2>1 DEF Ended, Shape, TokenRow
    <2>4. c \in ShareReq
      BY <2>3, <2>2 DEF ShareReq
    <2>5. c.op = "use" /\ c.at = 1 /\ c.who = None /\ c.id = t /\ c.late = Ended(t)
      BY <2>2 DEF ShareReq
    <2> HIDE DEF c
    <2>6. ShareReqOk(c)
      BY <2>3, <2>2, <2>4, <2>5 DEF ShareReqOk
    <2>7. New(c)
      BY <2>1, <2>5, <2>6, OpsApart DEF New, Writes
    <2>8. QED
      BY <2>1, <2>7 DEF Comes, c
  <1>7. QED
    BY <1>1, <1>2, <1>3, <1>4, <1>5, <1>6 DEF SharesArrive

LEMMA GoesOk ==
  ASSUME Shape, NEW p \in Requests, ShareReqOk(req[p]), req[p].op \in OwnOps,
         req[p].at + 1 \in DOMAIN Steps[req[p].op], req[p].op # "update" \/ req[p].at > 1,
         Goes(p, req[p])
  PROVE  ReqsOk'
  <1>1. ShareReqOk([req[p] EXCEPT !.at = @ + 1])
    BY DEF ShareReqOk, ShareReq
  <1>2. QED
    BY <1>1, OneReq DEF Goes

LEMMA MergedOk ==
  ASSUME NEW c, ShareReqOk(c), c.op = "update", c.at > 1
  PROVE  /\ Merged(c) \in FilterRow
         /\ Merged(c).name = Or(c.name, c.row.name) /\ Merged(c).def = Or(c.def, c.row.def)
         /\ Merged(c).owner = c.row.owner /\ Merged(c).until = c.row.until
  <1>1. c.row \in FilterRow /\ c.name \in Names \cup {None} /\ c.def \in Definitions \cup {None}
    BY DEF ShareReqOk, ShareReq
  <1>2. Or(c.name, c.row.name) \in Names /\ Or(c.def, c.row.def) \in Definitions
    BY <1>1, SharesAssumption DEF Or, FilterRow
  <1>3. QED
    BY <1>1, <1>2 DEF Merged, Changed, FilterRow

TokensOk == token \in [Tokens -> TokenRow \cup {None}]
LEMMA NewTokenOk ==
  ASSUME Shape, NEW k \in Kinds, NEW f \in FilterIds \cup Files, NEW u \in Users, NEW e \in Nat,
         NewToken(k, f, u, e), Blank # {}
  PROVE  /\ TokensOk'
         /\ \A t \in Tokens : token[t] # None => token'[t] = token[t]
         /\ \A t \in Tokens : token'[t] = token[t] \/ (token'[t] # None /\ ~token'[t].revoked)
  <1> DEFINE x == CHOOSE y \in Blank : TRUE
             row == [kind |-> k, target |-> f, issuer |-> u, until |-> e, revoked |-> FALSE]
  <1>1. x \in Blank
    OBVIOUS
  <1>2. row \in TokenRow /\ row # None /\ ~row.revoked
    <2>1. row \in TokenRow
      BY DEF TokenRow
    <2>2. row.revoked = FALSE
      OBVIOUS
    <2>3. QED
      BY <2>1, <2>2, NoneAskedAssumption
  <1>3. token' = [token EXCEPT ![x] = row]
    BY DEF NewToken
  <1> HIDE DEF x, row
  <1>4. QED
    BY <1>1, <1>2, <1>3 DEF Blank, Shape, TokensOk

\* A filter somebody writes has been made.
Known == \A p \in Requests : req[p].op \in Writes => Made(req[p].id)

\* A token somebody revokes or uses has been issued.
Given == \A p \in Requests : req[p].op \in {"revoke", "use"} => token[req[p].id] # None

LEMMA SharesKeepShape ==
  ASSUME Shape, Known, Given, NEW p \in Requests, SharesStep(p), UNCHANGED files
  PROVE  Shape'
  <1> DEFINE c == req[p]
  <1>1. CASE SharesArrive(p)
    <2>1. UNCHANGED <<filter, token, now, word, revoked>> /\ started' \in 0..MaxRequests
      <3>1. \A d : Arrives(p, d) => /\ UNCHANGED <<filter, token, now, word, revoked>>
                                   /\ started' \in 0..MaxRequests
        BY SharesAssumption DEF Arrives, Shape
      <3>2. QED
        BY <1>1, <3>1, ArrivalsAreNew DEF Comes
    <2>2. ReqsOk'
      BY <1>1, ArrivalsAreNew, ArrivesOk DEF Comes, New
    <2>3. QED
      BY <2>1, <2>2 DEF Shape, ReqsOk
  <1>k. ASSUME ReqsOk', UNCHANGED <<filter, token, now, started, word, revoked>> PROVE Shape'
    BY <1>k DEF Shape, ReqsOk
  <1>2. CASE Taken(p)
    <2>1. c.op = "create" /\ c.at = 1 /\ ShareReqOk(c)
      BY <1>2, StepTells, NoneIsNoStep DEF Taken
    <2>2. Goes(p, c) => ReqsOk'
      BY <2>1, GoesOk, OpsApart, StepNames
    <2>3. QED
      BY <1>2, <1>k, <2>2, StopOk DEF Taken
  <1>3. CASE Insert(p)
    <2>1. ShareReqOk(c) /\ c.op = "create"
      BY <1>3, StepTells, NoneIsNoStep DEF Insert
    <2> DEFINE q == CHOOSE x \in Free : TRUE
               row == [name |-> c.name, def |-> c.def, owner |-> c.who, until |-> c.until]
    <2>2. q \in FilterIds
      BY <1>3 DEF Insert, Free
    <2>3. row \in FilterRow
      BY <2>1 DEF ShareReqOk, ShareReq, FilterRow
    <2>4. \/ UNCHANGED <<filter, word>>
          \/ /\ filter' = [filter EXCEPT ![q] = row]
             /\ word' = [word EXCEPT ![q] = [is |-> "kept", row |-> row]]
      BY <1>3 DEF Insert
    <2>5. Stop(p) /\ UNCHANGED <<token, now, started, revoked>>
      BY <1>3 DEF Insert
    <2>6. ReqsOk'
      BY <2>5, StopOk
    <2>7. [is |-> "kept", row |-> row] \in WordRow /\ [is |-> "kept", row |-> row].row = row
      BY <2>3 DEF WordRow
    <2> DEFINE w == [is |-> "kept", row |-> row]
    <2> HIDE DEF q, row, w
    <2>8. /\ filter' \in [FilterIds -> FilterRow \cup {None}]
          /\ word' \in [FilterIds -> WordRow]
          /\ \A x \in FilterIds : word'[x].is # "new" => word'[x].row \in FilterRow
      <3>1. w \in WordRow /\ w.row \in FilterRow
        BY <2>3, <2>7 DEF w
      <3>2. UNCHANGED <<filter, word>> \/ (filter' = [filter EXCEPT ![q] = row] /\ word' = [word EXCEPT ![q] = w])
        BY <2>4 DEF w
      <3>3. QED
        BY <2>2, <2>3, <3>1, <3>2 DEF Shape
    <2>9. QED
      BY <2>5, <2>6, <2>8 DEF Shape, ReqsOk
  <1>4. CASE Read(p)
    <2>1. ShareReqOk(c) /\ c.op \in Writes /\ c.at = 1
      BY <1>4, StepTells, NoneIsNoStep DEF Read
    <2>2. CASE Stop(p)
      BY <1>4, <1>k, <2>2, StopOk DEF Read
    <2>3. CASE Exists(c.id) /\ Goes(p, [c EXCEPT !.row = filter[c.id]])
      <3>1. c.id \in FilterIds
        BY <2>1 DEF ShareReqOk, Writes
      <3>2. filter[c.id] \in FilterRow
        BY <2>3, <3>1 DEF Shape, Exists
      <3> DEFINE e == [c EXCEPT !.row = filter[c.id]]
                 d == [e EXCEPT !.at = @ + 1]
      <3>3. c \in ShareReq
        BY <2>1 DEF ShareReqOk
      <3>4. d \in ShareReq /\ d.op = c.op /\ d.at = 2 /\ d.who = c.who /\ d.id = c.id
            /\ d.row = filter[c.id]
        <4>1. e \in ShareReq /\ e.op = c.op /\ e.at = 1 /\ e.who = c.who /\ e.id = c.id
              /\ e.row = filter[c.id]
          BY <2>1, <3>2, <3>3 DEF ShareReq
        <4> HIDE DEF e
        <4>2. QED
          BY <4>1 DEF ShareReq
      <3>5. 2 \in DOMAIN Steps[c.op]
        BY <2>1, StepNames DEF Writes
      <3>6. req' = [req EXCEPT ![p] = d]
        BY <2>3 DEF Goes
      <3> HIDE DEF d
      <3>7. ShareReqOk(d)
        BY <2>1, <3>2, <3>4, <3>5 DEF ShareReqOk, Writes
      <3>8. QED
        BY <1>4, <1>k, <3>6, <3>7, OneReq DEF Read
    <2>4. QED
      BY <1>4, <2>2, <2>3 DEF Read
  <1>5. CASE Clash(p)
    <2>1. c.op = "update" /\ c.at = 2 /\ ShareReqOk(c)
      BY <1>5, StepTells, NoneIsNoStep DEF Clash
    <2>2. Goes(p, c) => ReqsOk'
      BY <2>1, GoesOk, OpsApart, StepNames
    <2>3. QED
      BY <1>5, <1>k, <2>2, StopOk DEF Clash
  <1>6. CASE Write(p)
    <2>1. c.op = "update" /\ c.at = 3 /\ ShareReqOk(c)
      BY <1>6, StepTells, NoneIsNoStep DEF Write
    <2>2. c.id \in FilterIds /\ Merged(c) \in FilterRow
      BY <2>1, MergedOk DEF ShareReqOk
    <2>3. ReqsOk' /\ UNCHANGED <<token, now, started, revoked>>
      BY <1>6, StopOk DEF Write
    <2>4. filter' \in [FilterIds -> FilterRow \cup {None}]
      BY <1>6, <2>2 DEF Write, Shape
    <2>5. word' \in [FilterIds -> WordRow]
          /\ \A q \in FilterIds : word'[q].is # "new" => word'[q].row \in FilterRow
      <3> DEFINE w == word[c.id]
                 v == Said(c, w)
      <3>1. w \in WordRow /\ (w.is # "new" => w.row \in FilterRow)
        BY <2>2 DEF Shape
      <3>2. word' = [word EXCEPT ![c.id] = v]
        BY <1>6 DEF Write
      <3>3. w.row \in FilterRow
        BY <2>1, <3>1 DEF Known, Made, Writes
      <3>4. Or(c.name, w.row.name) \in Names /\ Or(c.def, w.row.def) \in Definitions
        BY <2>1, <3>3, SharesAssumption DEF Or, ShareReqOk, ShareReq, FilterRow
      <3>5. Changed(c, w.row) \in FilterRow
        BY <3>3, <3>4 DEF Changed, FilterRow
      <3>6. [w EXCEPT !.is = "any"] \in WordRow /\ [w EXCEPT !.is = "any"].row = w.row
        BY <3>1 DEF WordRow
      <3>7. v \in WordRow /\ v.row \in FilterRow
        BY <3>1, <3>3, <3>5, <3>6 DEF Said, WordRow
      <3> HIDE DEF w, v
      <3>8. QED
        BY <2>2, <3>2, <3>7 DEF Shape
    <2>6. QED
      BY <2>3, <2>4, <2>5 DEF Shape, ReqsOk
  <1>7. CASE Delete(p)
    <2>1. c.op = "delete" /\ ShareReqOk(c)
      BY <1>7, StepTells, NoneIsNoStep DEF Delete
    <2>2. c.id \in FilterIds /\ word[c.id] \in WordRow /\ word[c.id].row \in FilterRow
      BY <2>1 DEF ShareReqOk, Shape, Known, Made, Writes
    <2>3. ReqsOk' /\ UNCHANGED <<token, now, started, revoked>>
      BY <1>7, StopOk DEF Delete
    <2>4. PICK s \in {"gone", "any"} : word' = [word EXCEPT ![c.id].is = s]
      BY <1>7 DEF Delete
    <2>5. [word[c.id] EXCEPT !.is = s] \in WordRow /\ [word[c.id] EXCEPT !.is = s].row = word[c.id].row
      BY <2>2 DEF WordRow
    <2>6. word' \in [FilterIds -> WordRow]
          /\ \A q \in FilterIds : word'[q].is # "new" => word'[q].row \in FilterRow
      BY <2>2, <2>4, <2>5 DEF Shape
    <2>7. filter' \in [FilterIds -> FilterRow \cup {None}]
      BY <1>7 DEF Delete, Shape
    <2>8. QED
      BY <2>3, <2>6, <2>7 DEF Shape, ReqsOk
  <1>8. CASE Issue(p)
    <2>1. c.op = "issue" /\ ShareReqOk(c)
      BY <1>8, StepTells, NoneIsNoStep DEF Issue
    <2>2. c.id \in FilterIds /\ c.who \in Users /\ c.until \in Nat
      BY <2>1 DEF ShareReqOk
    <2>3. TokensOk'
      BY <1>8, <2>2, NewTokenOk DEF Issue, Kinds
    <2>4. ReqsOk' /\ UNCHANGED <<filter, now, started, word, revoked>>
      BY <1>8, StopOk DEF Issue
    <2>5. QED
      BY <2>3, <2>4 DEF Shape, ReqsOk, TokensOk
  <1>9. CASE Own(p)
    <2>1. c.op = "revoke" /\ c.at = 1 /\ ShareReqOk(c)
      BY <1>9, StepTells, NoneIsNoStep DEF Own
    <2>2. Goes(p, c) => ReqsOk'
      BY <2>1, GoesOk, OpsApart, StepNames
    <2>3. QED
      BY <1>9, <1>k, <2>2, StopOk DEF Own
  <1>10. CASE Revoke(p)
    <2>1. c.op = "revoke" /\ ShareReqOk(c)
      BY <1>10, StepTells, NoneIsNoStep DEF Revoke
    <2>2. ReqsOk' /\ UNCHANGED <<filter, now, started, word>>
      BY <1>10, StopOk DEF Revoke
    <2>3. revoked' \in [Tokens -> Nat]
      <3>1. UNCHANGED revoked \/ revoked' = [revoked EXCEPT ![c.id] = @ + 1]
        BY <1>10 DEF Revoke
      <3>2. revoked \in [Tokens -> Nat] /\ c.id \in Tokens
        BY <2>1 DEF Shape, ShareReqOk
      <3>3. QED
        BY <3>1, <3>2
    <2>4. token[c.id] \in TokenRow
      BY <2>1 DEF Shape, Given, ShareReqOk
    <2>5. [token[c.id] EXCEPT !.revoked = TRUE] \in TokenRow
      BY <2>4 DEF TokenRow
    <2>6. token' \in [Tokens -> TokenRow \cup {None}]
      BY <1>10, <2>5 DEF Revoke, Shape
    <2>7. QED
      BY <2>2, <2>3, <2>6 DEF Shape, ReqsOk
  <1>11. CASE Verify(p)
    <2>1. c.op = "use" /\ c.at = 1 /\ ShareReqOk(c)
      BY <1>11, StepTells, NoneIsNoStep DEF Verify
    <2>2. Goes(p, c) => ReqsOk'
      BY <2>1, GoesOk, OpsApart, StepNames
    <2>3. QED
      BY <1>11, <1>k, <2>2, StopOk DEF Verify
  <1>12. CASE Target(p)
    <2>1. c.op = "use" /\ c.at = 2 /\ ShareReqOk(c)
      BY <1>12, StepTells, NoneIsNoStep DEF Target
    <2>2. Goes(p, c) => ReqsOk'
      BY <2>1, GoesOk, OpsApart, StepNames
    <2>3. QED
      BY <1>12, <1>k, <2>2, StopOk DEF Target
  <1>13. CASE Reply(p)
    BY <1>13, <1>k, StopOk DEF Reply
  <1>14. QED
    BY <1>1, <1>2, <1>3, <1>4, <1>5, <1>6, <1>7, <1>8, <1>9, <1>10, <1>11, <1>12, <1>13
       DEF SharesStep, SharesArrive

-----------------------------------------------------------------------------
(* Requests that ask for decisions leave filters, and those who change     *)
(* them, alone.                                                            *)

\* What such a step does to the requests.
AsideReqs ==
  /\ req' = [q \in Requests |-> req'[q]]
  /\ \A q \in Requests :
       \/ req'[q] = req[q]
       \/ req[q].op \in AskOps \cup {None} /\ (AskReqOk(req'[q]) \/ req'[q] = Idle)

LEMMA WatchedOk ==
  ASSUME NEW c, ShareReqOk(c) \/ AskReqOk(c), NEW R
  PROVE  Watched(c, R) = c \/ (c.op \in AskOps /\ AskReqOk(Watched(c, R)))
  <1>1. CASE c.op \notin Checks
    BY <1>1 DEF Watched
  <1>2. CASE c.op \in Checks
    <2>1. AskReqOk(c) /\ c.op \in AskOps
      BY <1>2, OpsApart DEF Checks, ShareReqOk, ShareReq
    <2>2. PICK a, b, d : Watched(c, R) = [c EXCEPT !.ever = a, !.always = b, !.raced = d]
      BY <1>2 DEF Watched
    <2>3. AskReqOk([c EXCEPT !.ever = a, !.always = b, !.raced = d])
      BY <2>1 DEF AskReqOk, AskFields
    <2>4. QED
      BY <2>1, <2>2, <2>3
  <1>3. QED
    BY <1>1, <1>2

LEMMA BeginOk ==
  ASSUME NEW c, AskReqOk(c), NEW todo, todo # <<>> \/ (c.op = "list" /\ c.at = 2)
  PROVE  AskReqOk(Begin(c, todo))
  <1>1. PICK a, b : Begin(c, todo) =
          [c EXCEPT !.at = IF todo = <<>> THEN @ + 1 ELSE @, !.todo = todo, !.ever = a, !.always = b]
    BY DEF Begin
  <1> DEFINE n == IF todo = <<>> THEN c.at + 1 ELSE c.at
  <1>2. n \in DOMAIN AccessSteps[c.op]
    BY AskStepNames DEF AskReqOk
  <1> HIDE DEF n
  <1>3. AskReqOk([c EXCEPT !.at = n, !.todo = todo, !.ever = a, !.always = b])
    BY <1>2 DEF AskReqOk, AskFields
  <1>4. QED
    BY <1>1, <1>3 DEF n

LEMMA AskingOk ==
  ASSUME NEW op \in AskOps, NEW u \in Users \cup {Anonymous}
  PROVE  /\ AskFields \subseteq DOMAIN Asking(op, u)
         /\ Asking(op, u).op = op /\ Asking(op, u).who = u
         /\ Asking(op, u).at \in DOMAIN AccessSteps[op]
  <1>1. 1 \in DOMAIN AccessSteps[op]
    BY OpsApart, AskStepNames
  <1>2. QED
    BY <1>1 DEF Asking, AskFields

LEMMA IdleIsApart ==
  ASSUME Shape, NEW p \in Requests, req[p] = Idle
  PROVE  req[p].op = None
  BY DEF Idle

LEMMA ArriveAskOk ==
  ASSUME Shape, NEW p \in Requests, ArriveOpen(p) \/ ArriveUpload(p) \/ ArriveList(p) \/ ArriveAdmin(p)
  PROVE  AsideReqs
  <1>a. \A c : Arrive(p, c) /\ AskReqOk(c) => AsideReqs
    BY IdleIsApart DEF Arrive, AsideReqs, Shape
  <1>b. Untils \subseteq Nat
    BY SharesAssumption DEF Untils, Shape
  <1>c. There \subseteq Files
    BY DEF There, Shape
  <1>1. CASE ArriveOpen(p)
    <2>1. PICK u \in Callers, f \in There, n \in Needs :
            Arrive(p, Begin([Asking("open", u) EXCEPT !.need = n], <<f>>))
      BY <1>1 DEF ArriveOpen
    <2>2. AskReqOk([Asking("open", u) EXCEPT !.need = n])
      BY AskingOk, OpsApart DEF AskReqOk, AskFields, Callers
    <2>3. QED
      BY <1>a, <2>1, <2>2, BeginOk
  <1>2. CASE ArriveUpload(p)
    <2>1. PICK u \in Users : Arrive(p, Asking("upload", u))
      BY <1>2 DEF ArriveUpload
    <2>2. AskReqOk(Asking("upload", u))
      BY AskingOk, OpsApart DEF AskReqOk
    <2>3. QED
      BY <1>a, <2>1, <2>2
  <1>3. CASE ArriveList(p)
    <2>1. PICK u \in Callers, q \in FilterIds :
            Arrive(p, [Asking("list", u) EXCEPT !.id = q, !.need = "VIEW"])
      BY <1>3 DEF ArriveList
    <2>2. AskReqOk([Asking("list", u) EXCEPT !.id = q, !.need = "VIEW"])
      BY AskingOk, OpsApart DEF AskReqOk, AskFields, Callers
    <2>3. QED
      BY <1>a, <2>1, <2>2
  <1>4. CASE ArriveAdmin(p)
    <2>1. PICK u \in Callers, f \in There, e \in Untils :
            Arrive(p, Begin([Asking("admin", u) EXCEPT !.need = "ADMIN", !.id = f, !.until = e], <<f>>))
      BY <1>4 DEF ArriveAdmin
    <2>2. AskReqOk([Asking("admin", u) EXCEPT !.need = "ADMIN", !.id = f, !.until = e])
      BY <1>b, <1>c, AskingOk, OpsApart DEF AskReqOk, AskFields, Callers
    <2>3. QED
      BY <1>a, <2>1, <2>2, BeginOk
  <1>5. QED
    BY <1>1, <1>2, <1>3, <1>4

LEMMA AnswerOk ==
  ASSUME Shape, NEW p \in Requests, AStep(p) = "rules", NEW granted \in BOOLEAN, Answer(p, granted)
  PROVE  AsideReqs
  <1> DEFINE c == req[p]
             d == [c EXCEPT !.yes = IF granted THEN @ \cup {Head(c.todo)} ELSE @,
                            !.todo = Tail(@), !.counting = FALSE]
  <1>1. c.op \in AskOps /\ AskReqOk(c) /\ AStep(p) = AccessSteps[c.op][c.at]
    BY AskTells, NoneIsNoStep DEF AStep, AskOps
  <1>2. AskReqOk(d) /\ d.op = c.op
    BY <1>1 DEF AskReqOk, AskFields
  <1>3. c.at + 1 \in DOMAIN AccessSteps[c.op] /\ (c.op = "admin" => c.at + 2 \in DOMAIN AccessSteps[c.op])
    BY <1>1, OpsApart, AskStepNames DEF AskReqOk
  <1>4. PICK e : req' = [req EXCEPT ![p] = e] /\
          (e = d \/ e = [d EXCEPT !.at = c.at + 1] \/ (c.op = "admin" /\ e = [d EXCEPT !.at = c.at + 2]))
    <2>1. d.at = c.at
      BY <1>1 DEF AskReqOk, AskFields
    <2>2. QED
      BY <2>1 DEF Answer
  <1> HIDE DEF c, d
  <1>5. AskReqOk(e)
    BY <1>2, <1>3, <1>4 DEF AskReqOk, AskFields
  <1>6. req[p].op \in AskOps
    BY <1>1 DEF c
  <1>7. QED
    BY <1>4, <1>5, <1>6 DEF AsideReqs, Shape

AccessOnly == \/ \E p \in Requests : AccessStep(p)
              \/ AddRule \/ ChangeGroup
Aside ==
  /\ AsideReqs
  /\ UNCHANGED <<filter, now, word, revoked>>
  /\ started' \in 0..MaxRequests /\ files' \in Seq(Files)
  /\ TokensOk'
  /\ \A t \in Tokens : token[t] # None => token'[t] = token[t]
  /\ \A t \in Tokens : token'[t] = token[t] \/ (token'[t] # None /\ ~token'[t].revoked)

LEMMA AccessStepsAside ==
  ASSUME Shape, AccessOnly
  PROVE  Aside
  <1> USE DEF accessVars
  <1>k. ASSUME AsideReqs, UNCHANGED <<filter, token, now, word, revoked, files>>, started' \in 0..MaxRequests
        PROVE  Aside
    BY <1>k DEF Aside, Shape, TokensOk
  <1>1. ASSUME NEW p \in Requests,
               ArriveOpen(p) \/ ArriveUpload(p) \/ ArriveList(p) \/ ArriveAdmin(p)
        PROVE  Aside
    <2>1. \A c : Arrive(p, c) => /\ UNCHANGED <<filter, token, now, word, revoked, files>>
                                 /\ started' \in 0..MaxRequests
      BY SharesAssumption DEF Arrive, Shape
    <2>2. QED
      BY <1>1, <1>k, <2>1, ArriveAskOk DEF ArriveOpen, ArriveUpload, ArriveList, ArriveAdmin
  <1>2. ASSUME NEW p \in Requests, MatchRules(p) PROVE Aside
    <2>1. AStep(p) = "rules" /\ AStep(p) # None
      BY <1>2, NoneIsNoStep DEF MatchRules
    <2>2. CASE \E granted \in BOOLEAN : Answer(p, granted)
      BY <1>2, <1>k, <2>1, <2>2, AnswerOk DEF MatchRules, Shape
    <2>3. CASE req' = [req EXCEPT ![p].counting = TRUE]
      <3>1. AskReqOk([req[p] EXCEPT !.counting = TRUE]) /\ req[p].op \in AskOps
        BY <2>1, AskTells DEF AskReqOk, AskFields
      <3>2. QED
        BY <1>2, <1>k, <2>3, <3>1 DEF MatchRules, Shape, AsideReqs
    <2>4. \A R, n : Decide(R, n) \in BOOLEAN
      BY DEF Decide
    <2>5. (req[p].need \in Public) \in BOOLEAN
      OBVIOUS
    <2>6. QED
      BY <1>2, <2>2, <2>3, <2>4, <2>5 DEF MatchRules
  <1>3. ASSUME NEW p \in Requests, CountRules(p) PROVE Aside
    <2>1. AStep(p) = "rules"
      BY <1>3 DEF CountRules
    <2>2. Answer(p, rules = {})
      BY <1>3 DEF CountRules
    <2>3. AsideReqs
      BY <2>1, <2>2, AnswerOk
    <2>4. QED
      BY <1>3, <1>k, <2>3 DEF CountRules, Shape
  <1>4. ASSUME NEW p \in Requests, ResolveFilter(p) PROVE Aside
    <2>1. AskReqOk(req[p]) /\ req[p].op = "list"
      <3>1. AStep(p) = "resolve" /\ AStep(p) # None
        BY <1>4, NoneIsNoStep DEF ResolveFilter
      <3>2. AskReqOk(req[p]) /\ req[p].op \in AskOps
        BY <3>1, AskTells
      <3>3. QED
        BY <3>1, <3>2, OpsApart, AskStepNames DEF AStep, AskReqOk
    <2> DEFINE c == [req[p] EXCEPT !.at = 2]
    <2>2. AskReqOk(c) /\ c.op = "list" /\ c.at = 2
      BY <2>1, AskStepNames DEF AskReqOk, AskFields
    <2>3. AsideReqs
      <3>1. PICK d : req' = [req EXCEPT ![p] = d] /\ (d = Idle \/ AskReqOk(d))
        BY <1>4, <2>2, BeginOk DEF ResolveFilter
      <3>2. QED
        BY <2>1, <3>1, OpsApart DEF AsideReqs, Shape
    <2>4. QED
      BY <1>4, <1>k, <2>3 DEF ResolveFilter, Shape
  <1>5. ASSUME NEW p \in Requests, CreateFile(p) PROVE Aside
    <2>1. AskReqOk(req[p]) /\ req[p].op = "upload"
      <3>1. AStep(p) = "file" /\ AStep(p) # None
        BY <1>5, NoneIsNoStep DEF CreateFile
      <3>2. AskReqOk(req[p]) /\ req[p].op \in AskOps
        BY <3>1, AskTells
      <3>3. QED
        BY <3>1, <3>2, OpsApart, AskStepNames DEF AStep, AskReqOk
    <2>2. PICK f \in Files : files' = <<f>> \o files /\ req' = [req EXCEPT ![p].at = 2, ![p].id = f]
      BY <1>5 DEF CreateFile
    <2>3. files' \in Seq(Files)
      BY <2>2 DEF Shape
    <2>4. AskReqOk([[req[p] EXCEPT !.at = 2] EXCEPT !.id = f])
      BY <2>1, AskStepNames DEF AskReqOk, AskFields
    <2>5. req' = [req EXCEPT ![p] = [[req[p] EXCEPT !.at = 2] EXCEPT !.id = f]]
      BY <2>2 DEF Shape
    <2>6. AsideReqs
      BY <2>1, <2>4, <2>5, OpsApart DEF AsideReqs, Shape
    <2>7. QED
      BY <1>5, <2>3, <2>6 DEF CreateFile, Aside, Shape, TokensOk
  <1>6. ASSUME NEW p \in Requests, OwnFile(p) PROVE Aside
    <2>1. AskReqOk(req[p]) /\ req[p].op = "upload"
      <3>1. AStep(p) = "rule" /\ AStep(p) # None
        BY <1>6, NoneIsNoStep DEF OwnFile
      <3>2. AskReqOk(req[p]) /\ req[p].op \in AskOps
        BY <3>1, AskTells
      <3>3. QED
        BY <3>1, <3>2, OpsApart, AskStepNames DEF AStep, AskReqOk
    <2>2. AskReqOk([req[p] EXCEPT !.at = 3]) /\ req[p].op \in AskOps
      BY <2>1, OpsApart, AskStepNames DEF AskReqOk, AskFields
    <2>3. PICK R : req' = [q \in Requests |-> IF q = p THEN [req[p] EXCEPT !.at = 3] ELSE Watched(req[q], R)]
      BY <1>6 DEF OwnFile, Adds
    <2>4. AsideReqs
      BY <2>1, <2>2, <2>3, WatchedOk DEF AsideReqs, Shape
    <2>5. QED
      BY <1>6, <1>k, <2>4 DEF OwnFile, Shape
  <1>7. ASSUME NEW p \in Requests, IssueFile(p) PROVE Aside
    <2>1. AskReqOk(req[p]) /\ req[p].op = "admin"
      <3>1. AStep(p) = "issue" /\ AStep(p) # None
        BY <1>7, NoneIsNoStep DEF IssueFile
      <3>2. AskReqOk(req[p]) /\ req[p].op \in AskOps
        BY <3>1, AskTells
      <3>3. QED
        BY <3>1, <3>2, OpsApart, AskStepNames DEF AStep, AskReqOk
    <2>2. req[p].id \in Files /\ req[p].until \in Nat /\ req[p].who \in Users
      BY <1>7, <2>1 DEF AskReqOk, IssueFile
    <2>3. /\ TokensOk'
          /\ \A t \in Tokens : token[t] # None => token'[t] = token[t]
          /\ \A t \in Tokens : token'[t] = token[t] \/ (token'[t] # None /\ ~token'[t].revoked)
      BY <1>7, <2>2, NewTokenOk DEF IssueFile, Kinds
    <2>4. AskReqOk([req[p] EXCEPT !.at = 3]) /\ req[p].op \in AskOps
      BY <2>1, OpsApart, AskStepNames DEF AskReqOk, AskFields
    <2>5. AsideReqs
      BY <1>7, <2>4 DEF AsideReqs, IssueFile, Shape
    <2>6. QED
      BY <1>7, <2>3, <2>5 DEF IssueFile, Aside, Shape
  <1>8. ASSUME NEW p \in Requests, Respond(p) PROVE Aside
    <2>1. AStep(p) = "reply" /\ AStep(p) # None
      BY <1>8, NoneIsNoStep DEF Respond
    <2>2. AsideReqs
      BY <1>8, <2>1, AskTells DEF AsideReqs, Respond, Stop, Shape
    <2>3. QED
      BY <1>8, <1>k, <2>2 DEF Respond, Shape
  <1>9. CASE AddRule
    <2>1. PICK r : Adds(None, r, Idle)
      BY <1>9 DEF AddRule
    <2>2. \A q \in Requests : q # None => req'[q] = Watched(req[q], rules \cup {r})
      BY <2>1 DEF Adds
    <2>3. AsideReqs
      BY <2>1, <2>2, WatchedOk, NoneAskedAssumption DEF AsideReqs, Adds, Shape
    <2>4. UNCHANGED <<filter, token, now, word, revoked, files>> /\ started' \in 0..MaxRequests
      BY <1>9, SharesAssumption DEF AddRule, Shape
    <2>5. QED
      BY <1>k, <2>3, <2>4
  <1>10. CASE ChangeGroup
    <2>1. UNCHANGED <<filter, token, now, word, revoked, files, req>> /\ started' \in 0..MaxRequests
      BY <1>10, SharesAssumption DEF ChangeGroup, Shape
    <2>2. AsideReqs
      BY <2>1 DEF AsideReqs, Shape
    <2>3. QED
      BY <1>k, <2>1, <2>2
  <1>11. QED
    BY <1>1, <1>2, <1>3, <1>4, <1>5, <1>6, <1>7, <1>8, <1>9, <1>10 DEF AccessOnly, AccessStep

LEMMA AsideKeepsShape == ASSUME Shape, Aside PROVE Shape'
  <1>1. ReqsOk'
    <2>1. \A q \in Requests : ShareReqOk(req'[q]) \/ AskReqOk(req'[q])
      BY IdleOk DEF Aside, AsideReqs, Shape
    <2>2. QED
      BY <2>1 DEF Aside, AsideReqs, ReqsOk
  <1>2. QED
    BY <1>1 DEF Aside, Shape, TokensOk, ReqsOk

\* A step of the whole, by who takes it.
LEMMA WhoSteps ==
  ASSUME [Next]_vars
  PROVE  \/ Tick /\ UNCHANGED accessVars
         \/ \E p \in Requests : SharesStep(p) /\ UNCHANGED accessVars
         \/ AccessOnly
         \/ UNCHANGED vars
  BY DEF Next, AccessOnly

LEMMA TickKeepsShape == ASSUME Shape, Tick, UNCHANGED accessVars PROVE Shape'
  BY SharesAssumption DEF Tick, Shape, accessVars

LEMMA StillKeepsShape == ASSUME Shape, UNCHANGED vars PROVE Shape'
  BY DEF Shape, vars, sharesVars, accessVars

LEMMA ShapeAtFirst == Init => Shape
  <1> SUFFICES ASSUME Init PROVE Shape
    OBVIOUS
  <1>1. ReqsOk
    BY IdleOk DEF Init, SharesInit, ReqsOk
  <1>2. word \in [FilterIds -> WordRow] /\ \A q \in FilterIds : word[q].is = "new"
    BY DEF Init, SharesInit, WordRow
  <1>3. QED
    BY <1>1, <1>2, SharesAssumption, AccessAssumption DEF Init, SharesInit, Shape, ReqsOk

-----------------------------------------------------------------------------
(* How a request on filters and tokens goes on.                            *)

Proceeds(p) ==
  /\ \A q \in Requests \ {p} : req'[q] = req[q]
  /\ ShareReqOk(req[p]) /\ req[p].op \in OwnOps
  /\ \/ req'[p] = Idle
     \/ /\ req'[p].op = req[p].op /\ req'[p].id = req[p].id /\ req'[p].at = req[p].at + 1
        /\ req'[p].alone = req[p].alone /\ req'[p].late = req[p].late

LEMMA GoesOn ==
  ASSUME Shape, NEW p \in Requests, SharesStep(p)
  PROVE  Comes(p) \/ Proceeds(p)
  <1> DEFINE c == req[p]
  <1>1. CASE SharesArrive(p)
    BY <1>1, ArrivalsAreNew
  <1>s. ASSUME Stop(p), Step(p) # None PROVE Proceeds(p)
    BY <1>s, StepTells DEF Stop, Proceeds, Shape
  <1>g. ASSUME Step(p) # None, NEW e, e = c \/ \E x : e = [c EXCEPT !.row = x], Goes(p, e) PROVE Proceeds(p)
    <2>1. c \in ShareReq /\ ShareReqOk(c) /\ c.op \in OwnOps
      BY <1>g, StepTells DEF ShareReqOk
    <2>2. {"op", "at", "id", "alone", "late"} \subseteq DOMAIN c
      BY <2>1 DEF ShareReq
    <2>3. /\ {"op", "at", "id", "alone", "late"} \subseteq DOMAIN e
          /\ e.op = c.op /\ e.at = c.at /\ e.id = c.id /\ e.alone = c.alone /\ e.late = c.late
      BY <1>g, <2>2
    <2> DEFINE d == [e EXCEPT !.at = @ + 1]
    <2>4. d.op = c.op /\ d.at = c.at + 1 /\ d.id = c.id /\ d.alone = c.alone /\ d.late = c.late
      BY <2>3
    <2>5. req' = [req EXCEPT ![p] = d]
      BY <1>g DEF Goes
    <2> HIDE DEF d
    <2>6. QED
      BY <2>1, <2>4, <2>5 DEF Proceeds, Shape
  <1>2. CASE Taken(p) \/ Clash(p) \/ Own(p) \/ Verify(p) \/ Target(p)
    BY <1>2, <1>s, <1>g, NoneIsNoStep DEF Taken, Clash, Own, Verify, Target
  <1>3. CASE Read(p)
    BY <1>3, <1>s, <1>g, NoneIsNoStep DEF Read
  <1>4. CASE Insert(p) \/ Write(p) \/ Delete(p) \/ Issue(p) \/ Revoke(p) \/ Reply(p)
    BY <1>4, <1>s, NoneIsNoStep DEF Insert, Write, Delete, Issue, Revoke, Reply
  <1>5. QED
    BY <1>1, <1>2, <1>3, <1>4 DEF SharesStep, SharesArrive

\* Where the requests are after a step of one of them, as far as the filter or
\* token they work on goes.
Continues(q) ==
  /\ req'[q].op = req[q].op /\ req'[q].id = req[q].id /\ req'[q].late = req[q].late
  /\ ShareReqOk(req[q]) /\ req[q].op \in OwnOps
LEMMA ComesOrContinues ==
  ASSUME Shape, NEW p \in Requests, SharesStep(p), NEW q \in Requests, req'[q].op \in OwnOps
  PROVE  \/ Continues(q)
         \/ q = p /\ \E c : New(c) /\ Arrives(p, c) /\ req'[p].op = c.op /\ req'[p].id = c.id
                            /\ req'[p].late = c.late /\ req'[p].at = 1
  <1>a. req'[q] # Idle
    BY OpsApart DEF Idle
  <1>1. CASE Proceeds(p)
    <2>1. CASE q = p
      BY <1>a, <1>1, <2>1 DEF Proceeds, Continues
    <2>2. CASE q # p
      <3>1. req'[q] = req[q]
        BY <1>1, <2>2 DEF Proceeds
      <3>2. ShareReqOk(req[q])
        BY <3>1, OpsApart DEF Shape, AskReqOk
      <3>3. QED
        BY <3>1, <3>2 DEF Continues
    <2>3. QED
      BY <2>1, <2>2
  <1>2. ASSUME NEW c, New(c), Arrives(p, c)
        PROVE  Continues(q) \/ (q = p /\ req'[p].op = c.op /\ req'[p].id = c.id
                                       /\ req'[p].late = c.late /\ req'[p].at = 1)
    <2>1. CASE q = p
      <3>1. req'[p] = [c EXCEPT !.alone = (c.op \notin Writes) \/ Meets(p, c.id) = {}]
        BY <1>2 DEF Arrives, Shape
      <3>2. c \in ShareReq /\ c.at = 1
        BY <1>2 DEF New, ShareReqOk
      <3>3. QED
        BY <2>1, <3>1, <3>2 DEF ShareReq
    <2>2. CASE q # p
      <3>1. req'[q] = req[q] \/ (req'[q] = [req[q] EXCEPT !.alone = FALSE] /\ req[q].op \in Writes)
        BY <1>2, <2>2 DEF Arrives, Meets
      <3>2. ShareReqOk(req[q])
        BY <3>1, OpsApart DEF Shape, AskReqOk, Writes
      <3>3. req'[q].op = req[q].op /\ req'[q].id = req[q].id /\ req'[q].late = req[q].late
        BY <3>1, <3>2 DEF ShareReqOk, ShareReq
      <3>4. QED
        BY <3>2, <3>3 DEF Continues
    <2>3. QED
      BY <2>1, <2>2
  <1>3. QED
    BY <1>1, <1>2, GoesOn DEF Comes

\* A request on filters or tokens is not touched by the others.
LEMMA AsideRequests ==
  ASSUME Shape, Aside, NEW q \in Requests, req'[q].op \in OwnOps
  PROVE  req'[q] = req[q]
  BY OpsApart DEF Aside, AsideReqs, AskReqOk, Idle

LEMMA MadeStays ==
  ASSUME Shape, NEW p \in Requests, SharesStep(p), NEW q \in FilterIds, Made(q)
  PROVE  Made(q)'
  <1>1. CASE UNCHANGED word
    BY <1>1 DEF Made
  <1>2. CASE Insert(p)
    <2>1. CASE UNCHANGED word
      BY <2>1 DEF Made
    <2>2. ASSUME NEW x, NEW r, word' = [word EXCEPT ![x] = [is |-> "kept", row |-> r]]
          PROVE  Made(q)'
      <3>1. [is |-> "kept", row |-> r].is = "kept"
        OBVIOUS
      <3>2. word'[q] = word[q] \/ word'[q] = [is |-> "kept", row |-> r]
        BY <2>2 DEF Shape
      <3>3. QED
        BY <3>1, <3>2 DEF Made
    <2>3. QED
      BY <1>2, <2>1, <2>2 DEF Insert
  <1>3. CASE Write(p)
    <2>1. word[q] \in WordRow
      BY DEF Shape
    <2>2. \A c : Said(c, word[q]).is # "new"
      BY <2>1 DEF Said, WordRow, Made
    <2>3. word' = [word EXCEPT ![req[p].id] = Said(req[p], @)]
      BY <1>3 DEF Write
    <2>4. QED
      BY <2>2, <2>3 DEF Made, Shape
  <1>4. CASE Delete(p)
    <2>1. PICK x \in {"gone", "any"} : word' = [word EXCEPT ![req[p].id].is = x]
      BY <1>4 DEF Delete
    <2>2. word[q] \in WordRow
      BY DEF Shape
    <2>3. word'[q] = word[q] \/ word'[q] = [word[q] EXCEPT !.is = x]
      BY <2>1 DEF Shape
    <2>4. QED
      BY <2>2, <2>3 DEF Made, WordRow
  <1>5. QED
    BY <1>1, <1>2, <1>3, <1>4, ArrivalsAreNew
       DEF SharesStep, SharesArrive, Comes, Arrives, Taken, Read, Clash, Issue, Own, Revoke,
           Verify, Target, Reply

LEMMA KnownKept ==
  ASSUME Shape, Known, NEW p \in Requests, SharesStep(p)
  PROVE  Known'
  <1> SUFFICES ASSUME NEW q \in Requests, req'[q].op \in Writes PROVE Made(req[q].id)'
    BY DEF Known
  <1>1. req'[q].op \in OwnOps
    BY OpsApart DEF Writes
  <1>2. CASE Continues(q)
    <2>1. req[q].id \in FilterIds /\ Made(req[q].id)
      BY <1>2 DEF Continues, Known, ShareReqOk, Writes
    <2>2. Made(req[q].id)' <=> word'[req[q].id].is # "new"
      BY <1>2 DEF Continues, Made
    <2>3. word'[req[q].id].is # "new"
      BY <2>1, MadeStays DEF Made
    <2>4. QED
      BY <2>2, <2>3
  <1>3. ASSUME NEW c, New(c), Arrives(p, c), req'[q].op = c.op, req'[q].id = c.id
        PROVE  Made(req[q].id)'
    BY <1>3 DEF New, Arrives, Made
  <1>4. QED
    BY <1>1, <1>2, <1>3, ComesOrContinues

-----------------------------------------------------------------------------
(* Tokens.                                                                 *)

\* What is recorded of a token agrees with what was reported of it, and a
\* request that came too late is stopped at the first step.
TokenInv ==
  /\ \A t \in Tokens : token[t] # None => revoked[t] = (IF token[t].revoked THEN 1 ELSE 0)
  /\ \A t \in Tokens : token[t] = None => revoked[t] = 0
  /\ \A p \in Requests : (req[p].op = "use" /\ req[p].late) =>
       Ended(req[p].id) /\ req[p].at = 1

\* A token that is there stays, and once it has ended it has ended for good.
LEMMA TokensStay ==
  ASSUME Shape, Given, NEW p \in Requests, SharesStep(p), NEW t \in Tokens, token[t] # None
  PROVE  token'[t] # None /\ (Ended(t) => Ended(t)')
  <1>1. CASE UNCHANGED <<token, now>>
    BY <1>1 DEF Ended
  <1>2. CASE Issue(p)
    <2>1. ShareReqOk(req[p]) /\ req[p].op = "issue"
      BY <1>2, StepTells, NoneIsNoStep DEF Issue
    <2>2. token'[t] = token[t] /\ now' = now
      BY <1>2, <2>1, NewTokenOk DEF Issue, ShareReqOk, Kinds
    <2>3. QED
      BY <2>2 DEF Ended
  <1>3. CASE Revoke(p)
    <2>1. token' = [token EXCEPT ![req[p].id].revoked = TRUE] \/ UNCHANGED token
      BY <1>3 DEF Revoke
    <2>2. token[t] \in TokenRow /\ now' = now
      BY <1>3 DEF Shape, Revoke
    <2>3. [token[t] EXCEPT !.revoked = TRUE] \in TokenRow
          /\ [token[t] EXCEPT !.revoked = TRUE].revoked = TRUE
      BY <2>2 DEF TokenRow
    <2>4. token'[t] = token[t] \/ token'[t] = [token[t] EXCEPT !.revoked = TRUE]
      BY <2>1 DEF Shape
    <2>5. QED
      BY <2>2, <2>3, <2>4, NoneAskedAssumption DEF Ended
  <1>4. QED
    BY <1>1, <1>2, <1>3, ArrivalsAreNew
       DEF SharesStep, SharesArrive, Comes, Arrives, Taken, Insert, Read, Clash, Write, Delete, Own,
           Verify, Target, Reply

LEMMA GivenKept ==
  ASSUME Shape, Given, NEW p \in Requests, SharesStep(p)
  PROVE  Given'
  <1> SUFFICES ASSUME NEW q \in Requests, req'[q].op \in {"revoke", "use"} PROVE (token[req[q].id])' # None
    BY DEF Given
  <1>1. req'[q].op \in OwnOps
    BY OpsApart
  <1>2. CASE Continues(q)
    <2>1. req[q].id \in Tokens /\ token[req[q].id] # None
      BY <1>2 DEF Continues, Given, ShareReqOk
    <2>2. QED
      BY <1>2, <2>1, TokensStay DEF Continues
  <1>3. ASSUME NEW c, New(c), Arrives(p, c), req'[q].op = c.op, req'[q].id = c.id
        PROVE  (token[req[q].id])' # None
    BY <1>3 DEF New, Arrives
  <1>4. QED
    BY <1>1, <1>2, <1>3, ComesOrContinues

LEMMA TokenInvKept ==
  ASSUME Shape, Given, TokenInv, NEW p \in Requests, SharesStep(p)
  PROVE  TokenInv'
  <1> DEFINE Counted(t) == /\ token[t] # None => revoked[t] = (IF token[t].revoked THEN 1 ELSE 0)
                           /\ token[t] = None => revoked[t] = 0
  <1>1. ASSUME NEW t \in Tokens PROVE Counted(t)'
    <2>0. Counted(t)
      BY DEF TokenInv
    <2>1. CASE UNCHANGED <<token, revoked>>
      BY <2>0, <2>1
    <2>2. CASE Issue(p)
      <3>1. ShareReqOk(req[p]) /\ req[p].op = "issue"
        BY <2>2, StepTells, NoneIsNoStep DEF Issue
      <3>2. /\ token[t] # None => token'[t] = token[t]
            /\ token'[t] = token[t] \/ (token'[t] # None /\ ~token'[t].revoked)
            /\ revoked' = revoked
        BY <2>2, <3>1, NewTokenOk DEF Issue, ShareReqOk, Kinds
      <3>3. QED
        BY <2>0, <3>2
    <2>3. CASE Revoke(p)
      <3>1. req[p].op = "revoke" /\ ShareReqOk(req[p])
        BY <2>3, StepTells, NoneIsNoStep DEF Revoke
      <3>2. req[p].id \in Tokens /\ token[req[p].id] \in TokenRow
        BY <3>1 DEF Given, Shape, ShareReqOk
      <3>3. CASE t # req[p].id
        <4>1. token'[t] = token[t] /\ revoked'[t] = revoked[t]
          BY <2>3, <3>3 DEF Revoke, Shape
        <4>2. QED
          BY <2>0, <4>1
      <3>4. CASE t = req[p].id
        <4>1. CASE ~token[t].revoked
          <5>1. token'[t] = [token[t] EXCEPT !.revoked = TRUE] /\ revoked'[t] = revoked[t] + 1
            BY <2>3, <3>2, <3>4, <4>1 DEF Revoke, Shape, StillValid
          <5>2. token'[t].revoked = TRUE /\ token'[t] # None
            <6>1. [token[t] EXCEPT !.revoked = TRUE] \in TokenRow
                  /\ [token[t] EXCEPT !.revoked = TRUE].revoked = TRUE
              BY <3>2, <3>4 DEF TokenRow
            <6>2. QED
              BY <5>1, <6>1, NoneAskedAssumption
          <5>3. revoked[t] = 0
            BY <2>0, <4>1
          <5>4. QED
            BY <5>1, <5>2, <5>3
        <4>2. CASE token[t].revoked
          <5>1. UNCHANGED <<token, revoked>>
            BY <2>3, <3>4, <4>2 DEF Revoke, StillValid
          <5>2. QED
            BY <2>0, <5>1
        <4>3. QED
          BY <4>1, <4>2
      <3>5. QED
        BY <3>3, <3>4
    <2>4. QED
      BY <2>1, <2>2, <2>3, ArrivalsAreNew
         DEF SharesStep, SharesArrive, Comes, Arrives, Taken, Insert, Read, Clash, Write, Delete, Own,
             Verify, Target, Reply
  <1>2. ASSUME NEW q \in Requests, req'[q].op = "use", req'[q].late
        PROVE  Ended(req[q].id)' /\ req'[q].at = 1
    <2>1. CASE Continues(q)
      <3>1. req[q].id \in Tokens /\ token[req[q].id] # None /\ Ended(req[q].id) /\ req[q].at = 1
            /\ req'[q].id = req[q].id
        BY <1>2, <2>1 DEF Continues, TokenInv, Given, ShareReqOk
      <3>2. Ended(req[q].id)'
        <4>1. \A t \in Tokens : token[t] # None /\ Ended(t) => Ended(t)'
          BY TokensStay
        <4>2. Ended(req[q].id)' <=> (token'[req[q].id].revoked \/ token'[req[q].id].until < now')
          BY <3>1 DEF Ended
        <4>3. QED
          BY <3>1, <4>1, <4>2 DEF Ended
      <3>3. ~Verifies(req[q].id, req[q].want)
        <4>1. token[req[q].id].until \in Nat /\ now \in Nat
          BY <3>1, SharesAssumption DEF Shape, TokenRow
        <4>2. QED
          BY <3>1, <4>1 DEF Ended, Verifies
      <3>4. req'[q].at = 1
        <4>1. CASE q = p
          <5>1. Step(p) = "verify"
            BY <2>1, <3>1, <4>1, <1>2, StepNames DEF Step, Continues
          <5>2. Verify(p) \/ SharesArrive(p)
            BY <5>1 DEF SharesStep, SharesArrive, Taken, Insert, Read, Clash, Write, Delete, Issue, Own,
                        Revoke, Target, Reply
          <5>3. CASE SharesArrive(p)
            <6>1. req[p] = Idle
              BY <5>3, ArrivalsAreNew DEF Comes, Arrives
            <6>2. QED
              BY <2>1, <4>1, <6>1, OpsApart DEF Continues, Idle
          <5>4. CASE Verify(p)
            <6>1. req' = [req EXCEPT ![p] = Idle]
              BY <3>3, <4>1, <5>4 DEF Verify, Stop
            <6>2. req'[p].op = None
              BY <6>1 DEF Shape, Idle
            <6>3. QED
              BY <1>2, <4>1, <6>2, OpsApart
          <5>5. QED
            BY <5>2, <5>3, <5>4
        <4>2. CASE q # p
          <5>1. CASE Proceeds(p)
            BY <3>1, <4>2, <5>1 DEF Proceeds
          <5>2. CASE Comes(p)
            <6>1. req'[q] = req[q] \/ req'[q] = [req[q] EXCEPT !.alone = FALSE]
              BY <4>2, <5>2 DEF Comes, Arrives
            <6>2. req[q] \in ShareReq
              BY <2>1 DEF Continues, ShareReqOk
            <6>3. req'[q].at = req[q].at
              BY <6>1, <6>2 DEF ShareReq
            <6>4. QED
              BY <3>1, <6>3
          <5>3. QED
            BY <5>1, <5>2, GoesOn
        <4>3. QED
          BY <4>1, <4>2
      <3>5. QED
        BY <3>2, <3>4
    <2>2. ASSUME NEW c, New(c), Arrives(p, c), q = p, req'[p].op = c.op, req'[p].id = c.id,
                 req'[p].late = c.late, req'[p].at = 1
          PROVE  Ended(req[q].id)' /\ req'[q].at = 1
      <3>1. Ended(c.id) /\ UNCHANGED <<token, now>>
        BY <1>2, <2>2 DEF New, Arrives
      <3>2. QED
        BY <2>2, <3>1 DEF Ended
    <2>3. QED
      BY <1>2, <2>1, <2>2, OpsApart, ComesOrContinues
  <1>3. QED
    BY <1>1, <1>2 DEF TokenInv

Base == Shape /\ Known /\ Given
LEMMA BaseHolds == Spec => []Base
  <1>1. Init => Base
    <2> SUFFICES ASSUME Init PROVE Known /\ Given
      BY ShapeAtFirst DEF Base
    <2>1. \A p \in Requests : req[p].op = None
      BY DEF Init, SharesInit, Idle
    <2>2. QED
      BY <2>1, OpsApart DEF Known, Given, Writes
  <1>2. Base /\ [Next]_vars => Base'
    <2> SUFFICES ASSUME Base, [Next]_vars PROVE Base'
      OBVIOUS
    <2> USE DEF Base
    <2>1. CASE Tick /\ UNCHANGED accessVars
      BY <2>1, TickKeepsShape DEF Tick, Known, Given, Made
    <2>2. ASSUME NEW p \in Requests, SharesStep(p), UNCHANGED accessVars PROVE Base'
      BY <2>2, SharesKeepShape, KnownKept, GivenKept DEF accessVars
    <2>3. CASE AccessOnly
      <3>1. Aside
        BY <2>3, AccessStepsAside
      <3>2. ASSUME NEW q \in Requests, req'[q].op \in Writes PROVE Made(req[q].id)'
        <4>1. req'[q] = req[q]
          BY <3>1, <3>2, AsideRequests, OpsApart DEF Writes
        <4>2. QED
          BY <3>1, <3>2, <4>1 DEF Aside, Known, Made
      <3>3. ASSUME NEW q \in Requests, req'[q].op \in {"revoke", "use"} PROVE (token[req[q].id])' # None
        <4>1. req'[q] = req[q]
          BY <3>1, <3>3, AsideRequests, OpsApart
        <4>2. req[q].id \in Tokens /\ token[req[q].id] # None
          BY <3>3, <4>1, OpsApart DEF Given, Shape, ShareReqOk, AskReqOk
        <4>3. QED
          BY <3>1, <4>1, <4>2 DEF Aside
      <3>4. QED
        BY <3>1, <3>2, <3>3, AsideKeepsShape DEF Known, Given
    <2>4. CASE UNCHANGED vars
      BY <2>4, StillKeepsShape DEF vars, sharesVars, Known, Given, Made
    <2>5. QED
      BY <2>1, <2>2, <2>3, <2>4, WhoSteps
  <1>3. QED
    BY <1>1, <1>2, PTL DEF Spec

\* A token is revoked once, and a request that comes after its revocation or
\* its end is not served by it.
THEOREM TokensEnd == Spec => []TokenEnds
  <1>1. Init => TokenInv
    <2> SUFFICES ASSUME Init PROVE TokenInv
      OBVIOUS
    <2>1. \A p \in Requests : req[p].op = None
      BY DEF Init, SharesInit, Idle
    <2>2. QED
      BY <2>1, OpsApart DEF Init, SharesInit, TokenInv
  <1>2. Base /\ TokenInv /\ [Next]_vars => TokenInv'
    <2> SUFFICES ASSUME Base, TokenInv, [Next]_vars PROVE TokenInv'
      OBVIOUS
    <2> USE DEF Base
    <2>1. CASE Tick /\ UNCHANGED accessVars
      <3>1. \A t \in Tokens : (token[t] # None /\ Ended(t)) => Ended(t)'
        BY <2>1, SharesAssumption DEF Tick, Ended, Shape, TokenRow
      <3>2. \A q \in Requests : req[q].op = "use" => req[q].id \in Tokens /\ token[req[q].id] # None
        BY OpsApart DEF Given, Shape, ShareReqOk, AskReqOk
      <3>3. UNCHANGED <<token, revoked, req>>
        BY <2>1 DEF Tick
      <3>4. \A q \in Requests : (req'[q].op = "use" /\ req'[q].late) => Ended(req[q].id)' /\ req'[q].at = 1
        <4> SUFFICES ASSUME NEW q \in Requests, req[q].op = "use", req[q].late
                     PROVE  Ended(req[q].id)' /\ req[q].at = 1
          BY <3>3
        <4>1. Ended(req[q].id)' <=> (token[req[q].id].revoked \/ token[req[q].id].until < now')
          BY <3>3 DEF Ended
        <4>2. QED
          BY <3>1, <3>2, <3>3, <4>1 DEF TokenInv, Ended
      <3>5. QED
        BY <3>3, <3>4 DEF TokenInv
    <2>2. ASSUME NEW p \in Requests, SharesStep(p) PROVE TokenInv'
      BY <2>2, TokenInvKept
    <2>3. CASE AccessOnly
      <3>1. Aside
        BY <2>3, AccessStepsAside
      <3>2. ASSUME NEW q \in Requests, req'[q].op = "use", req'[q].late
            PROVE  Ended(req[q].id)' /\ req'[q].at = 1
        <4>1. req'[q] = req[q]
          BY <3>1, <3>2, AsideRequests, OpsApart
        <4>2. req[q].id \in Tokens /\ token[req[q].id] # None
          BY <3>2, <4>1, OpsApart DEF Given, Shape, ShareReqOk, AskReqOk
        <4>3. token'[req[q].id] = token[req[q].id] /\ now' = now
          BY <3>1, <4>2 DEF Aside
        <4>4. QED
          BY <3>2, <4>1, <4>3 DEF TokenInv, Ended
      <3>3. ASSUME NEW t \in Tokens
            PROVE  /\ token'[t] # None => revoked'[t] = (IF token'[t].revoked THEN 1 ELSE 0)
                   /\ token'[t] = None => revoked'[t] = 0
        BY <3>1 DEF Aside, TokenInv
      <3>4. QED
        BY <3>2, <3>3 DEF TokenInv
    <2>4. CASE UNCHANGED vars
      BY <2>4 DEF vars, sharesVars, TokenInv, Ended
    <2>5. QED
      BY <2>1, <2>2, <2>3, <2>4, WhoSteps
  <1>3. Base /\ TokenInv => TokenEnds
    <2> SUFFICES ASSUME Base, TokenInv PROVE TokenEnds
      OBVIOUS
    <2>1. ASSUME NEW p \in Requests, Step(p) \in {"target", "reply"} PROVE ~req[p].late
      <3>1. req[p].op = "use" /\ req[p].at # 1
        BY <2>1, StepTells, NoneIsNoStep DEF Base
      <3>2. QED
        BY <3>1 DEF TokenInv
    <2>2. QED
      BY <2>1 DEF TokenInv, TokenEnds
  <1>4. QED
    BY <1>1, <1>2, <1>3, BaseHolds, PTL DEF Spec

-----------------------------------------------------------------------------
(* Filters.                                                                *)

NamesApart ==
  \A q, r \in FilterIds : (Exists(q) /\ Exists(r) /\ filter[q].name = filter[r].name) => q = r

LEMMA FreeNameApart ==
  ASSUME Shape, NamesApart, NEW q, NEW row, filter' = [filter EXCEPT ![q] = row], NameFree(row.name, q)
  PROVE  NamesApart'
  BY DEF NamesApart, NameFree, Named, Exists, Shape

\* Two filters never share a name.
THEOREM NamesStayUnique == Spec => []NamesUnique
  <1>1. Init => NamesApart
    BY DEF Init, SharesInit, NamesApart, Exists
  <1>2. Base /\ NamesApart /\ [Next]_vars => NamesApart'
    <2> SUFFICES ASSUME Shape, NamesApart, [Next]_vars PROVE NamesApart'
      BY DEF Base
    <2>1. CASE UNCHANGED filter
      BY <2>1 DEF NamesApart, Exists
    <2>2. ASSUME NEW p \in Requests, Insert(p) PROVE NamesApart'
      <3> DEFINE q == CHOOSE x \in Free : TRUE
                 row == [name |-> req[p].name, def |-> req[p].def, owner |-> req[p].who,
                         until |-> req[p].until]
      <3>1. UNCHANGED filter \/ (filter' = [filter EXCEPT ![q] = row] /\ NameFree(row.name, q))
        BY <2>2 DEF Insert
      <3> HIDE DEF q, row
      <3>2. QED
        BY <2>1, <3>1, FreeNameApart
    <2>3. ASSUME NEW p \in Requests, Write(p) PROVE NamesApart'
      BY <2>1, <2>3, FreeNameApart DEF Write
    <2>4. ASSUME NEW p \in Requests, Delete(p) PROVE NamesApart'
      BY <2>4 DEF Delete, NamesApart, Exists, Shape
    <2>5. ASSUME NEW p \in Requests, SharesArrive(p) PROVE NamesApart'
      BY <2>1, <2>5, ArrivalsAreNew DEF Comes, Arrives
    <2>6. CASE AccessOnly
      BY <2>1, <2>6, AccessStepsAside DEF Aside
    <2>7. ASSUME NEW p \in Requests, SharesStep(p) PROVE NamesApart'
      BY <2>1, <2>2, <2>3, <2>4, <2>5, <2>7
         DEF SharesStep, SharesArrive, Taken, Read, Clash, Issue, Own, Revoke, Verify, Target, Reply
    <2>8. QED
      BY <2>1, <2>6, <2>7, WhoSteps DEF Tick, vars, sharesVars
  <1>3. NamesApart => NamesUnique
    <2> SUFFICES ASSUME NamesApart, NEW n \in Names PROVE Cardinality(Named(n)) <= 1
      BY DEF NamesUnique
    <2>1. CASE Named(n) = {}
      BY <2>1, FS_EmptySet
    <2>2. ASSUME NEW q \in Named(n) PROVE Cardinality(Named(n)) <= 1
      <3>1. Named(n) = {q}
        BY <2>2 DEF NamesApart, Named
      <3>2. Cardinality({q}) = 1
        BY FS_Singleton
      <3>3. QED
        BY <3>1, <3>2
    <2>3. QED
      BY <2>1, <2>2
  <1>4. QED
    BY <1>1, <1>2, <1>3, BaseHolds, PTL DEF Spec

\* Requests that write the same filter know of each other; one that is alone
\* has in hand what the table holds.
Overlap ==
  \A p, q \in Requests :
    (p # q /\ req[p].op \in Writes /\ req[q].op \in Writes /\ req[p].id = req[q].id) => ~req[p].alone
Fresh ==
  \A p \in Requests : (req[p].op \in Writes /\ req[p].alone /\ req[p].at > 1) =>
    Exists(req[p].id) /\ (req[p].op = "update" => req[p].row = filter[req[p].id])

LEMMA OverlapKept ==
  ASSUME Shape, Overlap, NEW p \in Requests, SharesStep(p)
  PROVE  Overlap'
  <1>1. CASE Proceeds(p)
    <2>1. \A q \in Requests : \/ req'[q].op = req[q].op /\ req'[q].id = req[q].id
                                 /\ req'[q].alone = req[q].alone
                              \/ req'[q].op \notin Writes
      BY <1>1, OpsApart DEF Proceeds, Idle, Writes
    <2>2. QED
      BY <2>1 DEF Overlap
  <1>2. ASSUME NEW c, New(c), Arrives(p, c) PROVE Overlap'
    <2>1. c \in ShareReq
      BY <1>2 DEF New, ShareReqOk
    <2>2. /\ req'[p].op = c.op /\ req'[p].id = c.id
          /\ req'[p].alone <=> (c.op \notin Writes) \/ Meets(p, c.id) = {}
      BY <1>2, <2>1 DEF Arrives, Shape, ShareReq
    <2>3. ASSUME NEW q \in Requests \ {p}, req'[q].op \in Writes
          PROVE  /\ req[q].op \in Writes /\ req'[q].op = req[q].op /\ req'[q].id = req[q].id
                 /\ req'[q].alone => req[q].alone
                 /\ (c.op \in Writes /\ req[q].id = c.id) => (q \in Meets(p, c.id) /\ ~req'[q].alone)
      <3>1. req'[q] = IF c.op \in Writes /\ q \in Meets(p, c.id)
                      THEN [req[q] EXCEPT !.alone = FALSE] ELSE req[q]
        BY <1>2, <2>3 DEF Arrives
      <3>2. req[q].op \in Writes
        BY <2>3, <3>1 DEF Meets
      <3>3. req[q] \in ShareReq
        BY <3>2, OpsApart DEF Shape, AskReqOk, ShareReqOk, Writes
      <3>4. QED
        BY <3>1, <3>2, <3>3 DEF ShareReq, Meets
    <2>4. QED
      BY <2>2, <2>3 DEF Overlap
  <1>3. QED
    BY <1>1, <1>2, GoesOn DEF Comes

\* A step that leaves the filters alone.
LEMMA FreshKept ==
  ASSUME Shape, Fresh, NEW p \in Requests, SharesStep(p), UNCHANGED filter
  PROVE  Fresh'
  <1>1. ASSUME NEW c, New(c), Arrives(p, c) PROVE Fresh'
    <2>1. c \in ShareReq /\ c.at = 1
      BY <1>1 DEF New, ShareReqOk
    <2>2. req'[p].at = 1
      BY <1>1, <2>1 DEF Arrives, Shape, ShareReq
    <2>3. ASSUME NEW q \in Requests \ {p}
          PROVE  req'[q] = req[q] \/ ~req'[q].alone
      <3>1. req'[q] = IF c.op \in Writes /\ q \in Meets(p, c.id)
                      THEN [req[q] EXCEPT !.alone = FALSE] ELSE req[q]
        BY <1>1 DEF Arrives
      <3>2. q \in Meets(p, c.id) => req[q] \in ShareReq
        BY OpsApart DEF Meets, Shape, AskReqOk, ShareReqOk, Writes
      <3>3. QED
        BY <3>1, <3>2 DEF ShareReq
    <2>4. QED
      BY <2>2, <2>3 DEF Fresh, Exists
  <1>2. CASE Proceeds(p)
    <2>1. ASSUME req'[p].op \in Writes, req'[p].alone, req'[p].at > 1
          PROVE  Exists(req'[p].id) /\ (req'[p].op = "update" => req'[p].row = filter[req'[p].id])
      <3>1. req'[p] # Idle
        BY <2>1, OpsApart DEF Idle, Writes
      <3>2. req'[p].op = req[p].op /\ req'[p].id = req[p].id /\ req'[p].at = req[p].at + 1
            /\ req'[p].alone = req[p].alone
        BY <1>2, <3>1 DEF Proceeds
      <3>3. CASE Read(p)
        <4>1. Exists(req[p].id) /\ Goes(p, [req[p] EXCEPT !.row = filter[req[p].id]])
          BY <3>1, <3>3 DEF Read, Stop, Shape
        <4>2. req[p] \in ShareReq
          BY <1>2 DEF Proceeds, ShareReqOk
        <4>3. req'[p].row = filter[req[p].id]
          BY <4>1, <4>2 DEF Goes, Shape, ShareReq
        <4>4. QED
          BY <3>2, <4>1, <4>3
      <3>4. CASE Clash(p)
        <4>1. Goes(p, req[p])
          BY <3>1, <3>4 DEF Clash, Stop, Shape
        <4>2. req[p] \in ShareReq /\ req[p].at = 2
          BY <1>2, <3>4, StepTells, NoneIsNoStep DEF Proceeds, ShareReqOk, Clash
        <4>3. req'[p].row = req[p].row
          BY <4>1, <4>2 DEF Goes, Shape, ShareReq
        <4>4. QED
          BY <2>1, <3>2, <4>2, <4>3 DEF Fresh
      <3>5. CASE ~Read(p) /\ ~Clash(p)
        <4>1. req[p].op \in Writes /\ req[p].op \in OwnOps
          BY <2>1, <3>2, OpsApart DEF Writes
        <4>2. Step(p) \in {"read", "clash", "write", "delete"}
          BY <1>2, <4>1, StepNames DEF Step, Writes, Proceeds, ShareReqOk
        <4>3. Write(p) \/ Delete(p) \/ SharesArrive(p)
          BY <3>5, <4>2 DEF SharesStep, SharesArrive, Taken, Insert, Issue, Own, Revoke, Verify, Target, Reply
        <4>4. ~SharesArrive(p)
          BY <4>1, OpsApart, ArrivalsAreNew DEF Comes, Arrives, Idle
        <4>5. req'[p] = Idle
          BY <4>3, <4>4 DEF Write, Delete, Stop, Shape
        <4>6. QED
          BY <3>1, <4>5
      <3>6. QED
        BY <3>3, <3>4, <3>5
    <2>2. QED
      BY <1>2, <2>1 DEF Proceeds, Fresh, Exists
  <1>3. QED
    BY <1>1, <1>2, GoesOn DEF Comes

LEMMA OthersFresh ==
  ASSUME Shape, Overlap, Fresh, NEW p \in Requests, req[p].op \in Writes, Stop(p),
         \A q \in FilterIds \ {req[p].id} : filter'[q] = filter[q]
  PROVE  Fresh'
  <1>1. ASSUME NEW q \in Requests, req'[q].op \in Writes, req'[q].alone, req'[q].at > 1
        PROVE  filter'[req'[q].id] # None /\ (req'[q].op = "update" => req'[q].row = filter'[req'[q].id])
    <2>1. q # p
      BY <1>1, OpsApart DEF Stop, Shape, Idle, Writes
    <2>2. req'[q] = req[q]
      BY <2>1 DEF Stop
    <2>3. req[q].id # req[p].id /\ req[q].id \in FilterIds
      BY <1>1, <2>1, <2>2, OpsApart DEF Overlap, Shape, AskReqOk, ShareReqOk, Writes
    <2>4. QED
      BY <1>1, <2>2, <2>3 DEF Fresh, Exists
  <1>2. QED
    BY <1>1 DEF Fresh, Exists

\* What is left of a filter when p has done what it came for.
LEMMA WriteKeepsWord ==
  ASSUME Base, Overlap, Fresh, LastWordKept, NEW p \in Requests, Write(p)
  PROVE  Fresh' /\ LastWordKept'
  <1> DEFINE c == req[p]
  <1> USE DEF Base
  <1>1. c.op = "update" /\ c.at = 3 /\ ShareReqOk(c) /\ c.id \in FilterIds
    BY StepTells, NoneIsNoStep DEF Write, ShareReqOk
  <1>2. word' = [word EXCEPT ![c.id] = Said(c, @)]
    BY DEF Write
  <1>3. \A q \in FilterIds \ {c.id} : filter'[q] = filter[q] /\ word'[q] = word[q]
    BY <1>2 DEF Write, Shape
  <1>4. Fresh'
    BY <1>1, <1>3, OthersFresh DEF Write, Writes
  <1>5. word[c.id] \in WordRow /\ word[c.id].is # "new"
    BY <1>1 DEF Shape, Known, Made, Writes
  <1>6. /\ word'[c.id].is = "kept" => filter'[c.id] = word'[c.id].row
        /\ word'[c.id].is \in {"new", "gone"} => filter'[c.id] = None
    <2>1. word'[c.id] = Said(c, word[c.id])
      BY <1>1, <1>2 DEF Shape
    <2>2. CASE ~c.alone
      <3>1. word'[c.id].is = "any"
        BY <1>5, <2>1, <2>2 DEF Said, WordRow
      <3>2. QED
        BY <3>1
    <2>3. CASE c.alone /\ word[c.id].is = "any"
      BY <2>1, <2>3 DEF Said
    <2>4. CASE c.alone /\ word[c.id].is # "any"
      <3>1. Exists(c.id) /\ c.row = filter[c.id]
        BY <1>1, <2>4 DEF Fresh, Writes
      <3>2. word[c.id].is = "kept" /\ word[c.id].row = c.row
        BY <1>1, <1>5, <2>4, <3>1 DEF LastWordKept, WordRow
      <3>3. Merged(c) = Changed(c, word[c.id].row) /\ Merged(c).name = Or(c.name, word[c.id].row.name)
        BY <1>1, <3>2, MergedOk DEF Merged
      <3>4. CASE NameFree(Merged(c).name, c.id)
        <4>1. filter'[c.id] = Merged(c)
          BY <1>1, <3>4 DEF Write, Shape
        <4>2. word'[c.id] = [word[c.id] EXCEPT !.row = Merged(c)]
          BY <2>1, <2>4, <3>3, <3>4 DEF Said
        <4>3. QED
          BY <1>5, <3>2, <4>1, <4>2 DEF WordRow
      <3>5. CASE ~NameFree(Merged(c).name, c.id)
        <4>1. filter'[c.id] = filter[c.id]
          BY <3>5 DEF Write
        <4>2. word'[c.id] = word[c.id]
          BY <2>1, <2>4, <3>3, <3>5 DEF Said
        <4>3. QED
          BY <3>1, <3>2, <4>1, <4>2
      <3>6. QED
        BY <3>4, <3>5
    <2>5. QED
      BY <2>2, <2>3, <2>4
  <1> HIDE DEF c
  <1>7. LastWordKept'
    BY <1>3, <1>6 DEF LastWordKept, Exists
  <1>8. QED
    BY <1>4, <1>7

LEMMA DeleteKeepsWord ==
  ASSUME Base, Overlap, Fresh, LastWordKept, NEW p \in Requests, Delete(p)
  PROVE  Fresh' /\ LastWordKept'
  <1> DEFINE c == req[p]
  <1> USE DEF Base
  <1>1. c.op = "delete" /\ ShareReqOk(c) /\ c.id \in FilterIds
    BY StepTells, NoneIsNoStep DEF Delete, ShareReqOk
  <1>2. PICK x \in {"gone", "any"} : word' = [word EXCEPT ![c.id].is = x]
    BY DEF Delete
  <1>3. \A q \in FilterIds \ {c.id} : filter'[q] = filter[q] /\ word'[q] = word[q]
    BY <1>2 DEF Delete, Shape
  <1>4. Fresh'
    BY <1>1, <1>3, OthersFresh DEF Delete, Writes
  <1>5. word'[c.id].is = x /\ filter'[c.id] = None
    <2>1. word[c.id] \in WordRow /\ word'[c.id] = [word[c.id] EXCEPT !.is = x]
      BY <1>1, <1>2 DEF Shape
    <2>2. filter'[c.id] = None
      BY <1>1 DEF Delete, Shape
    <2>3. QED
      BY <2>1, <2>2 DEF WordRow
  <1> HIDE DEF c
  <1>6. LastWordKept'
    BY <1>3, <1>5 DEF LastWordKept, Exists
  <1>7. QED
    BY <1>4, <1>6

LEMMA InsertKeepsWord ==
  ASSUME Base, Overlap, Fresh, LastWordKept, NEW p \in Requests, SharesStep(p), Insert(p)
  PROVE  Fresh' /\ LastWordKept'
  <1> USE DEF Base
  <1>0. CASE UNCHANGED <<filter, word>>
    BY <1>0, FreshKept DEF LastWordKept, Exists
  <1>1. ASSUME NEW q \in Free, NEW row, filter' = [filter EXCEPT ![q] = row],
               word' = [word EXCEPT ![q] = [is |-> "kept", row |-> row]], Stop(p)
        PROVE  Fresh' /\ LastWordKept'
    <2>1. q \in FilterIds /\ ~Made(q)
      BY DEF Free
    <2>2. ASSUME NEW r \in Requests, req'[r].op \in Writes PROVE req'[r] = req[r] /\ req[r].id # q
      <3>1. req'[r] = req[r]
        BY <1>1, <2>2, OpsApart DEF Stop, Shape, Idle, Writes
      <3>2. QED
        BY <2>1, <2>2, <3>1 DEF Known
    <2>3. Fresh'
      <3>1. \A r \in FilterIds \ {q} : filter'[r] = filter[r]
        BY <1>1 DEF Shape
      <3>2. \A r \in Requests : req[r].op \in Writes => req[r].id \in FilterIds
        BY OpsApart DEF Shape, AskReqOk, ShareReqOk, Writes
      <3>3. QED
        BY <2>2, <3>1, <3>2 DEF Fresh, Exists
    <2>4. filter'[q] = row /\ word'[q] = [is |-> "kept", row |-> row]
      BY <1>1, <2>1 DEF Shape
    <2>5. \A r \in FilterIds \ {q} : filter'[r] = filter[r] /\ word'[r] = word[r]
      BY <1>1 DEF Shape
    <2>6. [is |-> "kept", row |-> row].is = "kept" /\ [is |-> "kept", row |-> row].row = row
      OBVIOUS
    <2>7. LastWordKept'
      BY <2>4, <2>5, <2>6 DEF LastWordKept, Exists
    <2>8. QED
      BY <2>3, <2>7
  <1>2. QED
    BY <1>0, <1>1 DEF Insert

\* A filter is what the last request that no other one overlapped made of it.
THEOREM LastWordsKept == Spec => []LastWordKept
  <1> DEFINE WordInv == Overlap /\ Fresh /\ LastWordKept
  <1>1. Init => WordInv
    <2> SUFFICES ASSUME Init PROVE WordInv
      OBVIOUS
    <2>1. \A p \in Requests : req[p].op = None
      BY DEF Init, SharesInit, Idle
    <2>2. LastWordKept
      BY DEF Init, SharesInit, LastWordKept, Exists
    <2>3. QED
      BY <2>1, <2>2, OpsApart DEF Overlap, Fresh, Writes
  <1>2. Base /\ WordInv /\ [Next]_vars => WordInv'
    <2> SUFFICES ASSUME Base, WordInv, [Next]_vars PROVE WordInv'
      OBVIOUS
    <2>1. ASSUME NEW p \in Requests, SharesStep(p) PROVE WordInv'
      <3>1. Overlap'
        BY <2>1, OverlapKept DEF Base
      <3>2. CASE Insert(p) \/ Write(p) \/ Delete(p)
        BY <2>1, <3>1, <3>2, InsertKeepsWord, WriteKeepsWord, DeleteKeepsWord
      <3>3. CASE UNCHANGED <<filter, word>>
        BY <2>1, <3>1, <3>3, FreshKept DEF Base, LastWordKept, Exists
      <3>4. QED
        BY <2>1, <3>2, <3>3, ArrivalsAreNew
           DEF Base, SharesStep, SharesArrive, Comes, Arrives, Taken, Read, Clash, Issue, Own, Revoke,
               Verify, Target, Reply
    <2>2. CASE AccessOnly
      <3>1. Aside
        BY <2>2, AccessStepsAside DEF Base
      <3>2. \A q \in Requests : req'[q].op \in Writes => req'[q] = req[q]
        BY <3>1, AsideRequests, OpsApart DEF Base, Writes
      <3>3. QED
        BY <3>1, <3>2 DEF Aside, Overlap, Fresh, LastWordKept, Exists
    <2>3. CASE Tick \/ UNCHANGED vars
      BY <2>3 DEF Tick, vars, sharesVars, Overlap, Fresh, LastWordKept, Exists
    <2>4. QED
      BY <2>1, <2>2, <2>3, WhoSteps
  <1>3. QED
    BY <1>1, <1>2, BaseHolds, PTL DEF Spec

\* A filter whose time is not over is on its owner's list.
THEOREM UnexpiredAreListed == Spec => []UnexpiredListed
  <1>1. Base => UnexpiredListed
    <2> SUFFICES ASSUME Shape, NEW q \in FilterIds, Exists(q),
                        filter[q].until = None \/ filter[q].until > now
                 PROVE  q \in Lists(filter[q].owner)
      BY DEF Base, UnexpiredListed
    <2>1. CASE filter[q].until = None
      BY <2>1 DEF Lists
    <2>2. CASE filter[q].until # None
      <3>1. filter[q].until \in Nat /\ now \in Nat /\ filter[q].until > now
        BY <2>2, SharesAssumption DEF Shape, Exists, FilterRow
      <3>2. \A m, n \in Nat : m > n => m \div 2 >= n \div 2
        OBVIOUS
      <3>3. LaterText(filter[q].until, now)
        BY <3>1, <3>2 DEF LaterText, Day
      <3>4. QED
        BY <3>3 DEF Lists
    <2>3. QED
      BY <2>1, <2>2
  <1>2. QED
    BY <1>1, BaseHolds, PTL

\* The types of what Shares keeps hold in every state of the whole.
THEOREM SharesTyped == Spec => []SharesTypeOK
  <1>1. Base => SharesTypeOK
    BY OpsApart DEF Base, Shape, SharesTypeOK, AskReqOk, ShareReqOk, WordRow
  <1>2. QED
    BY <1>1, BaseHolds, PTL

\* Names apart, the last word kept, listed until its time is over: a filter
\* is all three, whatever requests overlap.
THEOREM FiltersKeep == Spec => []FiltersKept
  <1>1. NamesUnique /\ LastWordKept /\ UnexpiredListed => FiltersKept
    BY DEF FiltersKept
  <1>2. QED
    BY <1>1, NamesStayUnique, LastWordsKept, UnexpiredAreListed, PTL

-----------------------------------------------------------------------------
(* The files of a filter.                                                  *)

Lower == {pair \in Nat \X Nat : pair[1] < pair[2]}

LEMMA Induction ==
  ASSUME NEW S \in SUBSET Nat, 0 \in S, \A n \in S : n + 1 \in S
  PROVE  S = Nat
<1>1. IsWellFoundedOn(Lower, Nat)
  BY NatLessThanWellFounded DEF OpToRel, Lower
<1>2. SUFFICES ASSUME Nat \ S # {} PROVE FALSE
  OBVIOUS
<1>3. PICK x \in Nat \ S : \A y \in Nat \ S : <<y, x>> \notin Lower
  <2>1. Nat \ S \in SUBSET Nat OBVIOUS
  <2>2. QED BY <1>1, <1>2, <2>1, WFMin
<1>4. x # 0 /\ x - 1 \in Nat /\ x - 1 < x /\ (x - 1) + 1 = x
  OBVIOUS
<1>5. x - 1 \in S
  BY <1>3, <1>4 DEF Lower
<1>6. x \in S
  BY <1>4, <1>5
<1>7. QED BY <1>6

\* What one more file adds to the list, and what a list of n files is.
Longer(C, d, n, s) == IF Eval(C[n], d) THEN Append(s, C[n]) ELSE s
Grows(C, d, K, L) ==
  K \in [0..L -> Seq(Files)] /\ K[0] = <<>> /\ \A n \in 1..L : K[n] = Longer(C, d, n, K[n - 1])

LEMMA GrowsExist ==
  ASSUME NEW C \in Seq(Files), NEW d
  PROVE  \E K : Grows(C, d, K, Len(C))
  <1> DEFINE N == {m \in Nat : m <= Len(C) => \E g : Grows(C, d, g, m)}
  <1>1. 0 \in N
    <2>1. Grows(C, d, [n \in 0..0 |-> <<>>], 0)
      BY DEF Grows
    <2>2. QED
      BY <2>1
  <1>2. ASSUME NEW m \in N, m + 1 <= Len(C) PROVE \E g : Grows(C, d, g, m + 1)
    <2>1. PICK g : Grows(C, d, g, m)
      BY <1>2
    <2>2. g \in [0..m -> Seq(Files)] /\ g[0] = <<>> /\ \A n \in 1..m : g[n] = Longer(C, d, n, g[n - 1])
      BY <2>1 DEF Grows
    <2> DEFINE s == Longer(C, d, m + 1, g[m])
               h == [n \in 0..(m + 1) |-> IF n = m + 1 THEN s ELSE g[n]]
    <2>3. m + 1 \in 1..Len(C) /\ m \in 0..m /\ C[m + 1] \in Files
      BY <1>2
    <2>4. s \in Seq(Files)
      BY <2>2, <2>3 DEF Longer
    <2>5. \A n \in 0..(m + 1) : n # m + 1 => n \in 0..m
      OBVIOUS
    <2> HIDE DEF s
    <2>6. h \in [0..(m + 1) -> Seq(Files)]
      BY <2>2, <2>4, <2>5
    <2>7. h[0] = <<>>
      BY <2>2
    <2>8. ASSUME NEW n \in 1..(m + 1) PROVE h[n] = Longer(C, d, n, h[n - 1])
      <3>1. CASE n = m + 1
        <4>1. h[n] = s /\ h[n - 1] = g[m]
          BY <3>1
        <4>2. QED
          BY <3>1, <4>1 DEF s
      <3>2. CASE n # m + 1
        <4>1. n \in 1..m /\ n \in 0..(m + 1) /\ n - 1 \in 0..(m + 1) /\ n - 1 # m + 1
          BY <3>2
        <4>2. h[n] = g[n] /\ h[n - 1] = g[n - 1]
          BY <3>2, <4>1
        <4>3. QED
          BY <2>2, <4>1, <4>2
      <3>3. QED
        BY <3>1, <3>2
    <2> HIDE DEF h
    <2>9. Grows(C, d, h, m + 1)
      BY <2>6, <2>7, <2>8 DEF Grows
    <2>10. QED
      BY <2>9
  <1>3. \A m \in N : m + 1 \in N
    BY <1>2
  <1> HIDE DEF N
  <1>4. N = Nat
    BY <1>1, <1>3, Induction DEF N
  <1>5. Len(C) \in Nat
    OBVIOUS
  <1>6. QED
    BY <1>4, <1>5 DEF N

RangeOf(s) == {s[i] : i \in DOMAIN s}

\* The newest files are files.
LEMMA CandidatesGive == ASSUME files \in Seq(Files) PROVE Candidates \in Seq(Files)
  <1> DEFINE n == IF Len(files) < QueryLimit THEN Len(files) ELSE QueryLimit
  <1>1. n \in Nat /\ n <= Len(files) /\ Len(files) \in Nat
    BY AccessAssumption
  <1> HIDE DEF n
  <1>2. \A i \in 1..n : files[i] \in Files
    BY <1>1
  <1>3. /\ SubSeq(files, 1, n) \in Seq(Files)
        /\ Len(SubSeq(files, 1, n)) = IF 1 <= n THEN n - 1 + 1 ELSE 0
        /\ \A i \in 1..(n - 1 + 1) : SubSeq(files, 1, n)[i] = files[1 + i - 1]
    <2>1. 1 \in Int /\ n \in Int
      BY <1>1
    <2>2. QED
      BY <1>2, <2>1, SubSeqProperties
  <1>4. Candidates = SubSeq(files, 1, n)
    BY DEF Candidates, n
  <1>5. QED
    BY <1>3, <1>4

\* The candidates that pass, in the order of the candidates.
LEMMA ResolveGrows ==
  ASSUME files \in Seq(Files), NEW d
  PROVE  \E K : Grows(Candidates, d, K, Len(Candidates)) /\ Resolve(d) = K[Len(Candidates)]
  <1> DEFINE Rec(g) == g = [n \in 0..Len(Candidates) |-> IF n = 0 THEN <<>>
                     ELSE IF Eval(Candidates[n], d) THEN Append(g[n - 1], Candidates[n]) ELSE g[n - 1]]
             K == CHOOSE g : Rec(g)
  <1>1. Resolve(d) = K[Len(Candidates)]
    BY Zenon DEF Resolve
  <1>2. Candidates \in Seq(Files) /\ Len(Candidates) \in Nat
    BY CandidatesGive
  <1>3. PICK g : Grows(Candidates, d, g, Len(Candidates))
    BY <1>2, GrowsExist
  <1>4. Rec(g)
    <2>1. g = [n \in 0..Len(Candidates) |-> g[n]]
      BY <1>3 DEF Grows
    <2>2. \A n \in 0..Len(Candidates) : g[n] = IF n = 0 THEN <<>>
             ELSE IF Eval(Candidates[n], d) THEN Append(g[n - 1], Candidates[n]) ELSE g[n - 1]
      <3> SUFFICES ASSUME NEW n \in 0..Len(Candidates)
          PROVE  g[n] = IF n = 0 THEN <<>>
                   ELSE IF Eval(Candidates[n], d) THEN Append(g[n - 1], Candidates[n]) ELSE g[n - 1]
        OBVIOUS
      <3>1. CASE n = 0
        BY <1>3, <3>1 DEF Grows
      <3>2. CASE n # 0
        <4>1. n \in 1..Len(Candidates)
          BY <1>2, <3>2
        <4>2. g[n] = Longer(Candidates, d, n, g[n - 1])
          BY <1>3, <4>1 DEF Grows
        <4>3. QED
          BY <3>2, <4>2 DEF Longer
      <3>3. QED
        BY <3>1, <3>2
    <2>3. QED
      BY <2>1, <2>2
  <1>5. Rec(K)
    BY <1>4
  <1> HIDE DEF K
  <1>6. Grows(Candidates, d, K, Len(Candidates))
    <2>1. \A n \in 1..Len(Candidates) : K[n] = Longer(Candidates, d, n, K[n - 1])
      <3> SUFFICES ASSUME NEW n \in 1..Len(Candidates) PROVE K[n] = Longer(Candidates, d, n, K[n - 1])
        OBVIOUS
      <3>1. n \in 0..Len(Candidates) /\ n # 0
        BY <1>2
      <3>2. K[n] = IF Eval(Candidates[n], d) THEN Append(K[n - 1], Candidates[n]) ELSE K[n - 1]
        BY <1>5, <3>1
      <3>3. QED
        BY <3>2 DEF Longer
    <2>2. K[0] = <<>>
      BY <1>2, <1>5
    <2> DEFINE N == {n \in Nat : n <= Len(Candidates) => K[n] \in Seq(Files)}
    <2>3. 0 \in N
      <3>1. K[0] \in Seq(Files)
        BY <2>2
      <3>2. QED
        BY <3>1
    <2>4. ASSUME NEW n \in N, n + 1 <= Len(Candidates) PROVE K[n + 1] \in Seq(Files)
      <3>1. K[n + 1] = Longer(Candidates, d, n + 1, K[n]) /\ K[n] \in Seq(Files) /\ Candidates[n + 1] \in Files
        BY <1>2, <2>1, <2>4
      <3>2. QED
        BY <3>1 DEF Longer
    <2>5. \A n \in N : n + 1 \in N
      BY <1>2, <2>4
    <2> HIDE DEF N
    <2>6. N = Nat
      BY <2>3, <2>5, Induction DEF N
    <2>7. \A n \in 0..Len(Candidates) : K[n] \in Seq(Files)
      BY <1>2, <2>6 DEF N
    <2>8. K = [n \in 0..Len(Candidates) |-> K[n]]
      BY <1>5
    <2>9. QED
      BY <2>1, <2>2, <2>7, <2>8 DEF Grows
  <1>7. QED
    BY <1>1, <1>6

LEMMA ResolvesToFiles ==
  ASSUME files \in Seq(Files), NEW d
  PROVE  Resolve(d) \in Seq(Files)
  <1>1. PICK K : Grows(Candidates, d, K, Len(Candidates)) /\ Resolve(d) = K[Len(Candidates)]
    BY ResolveGrows
  <1>2. Len(Candidates) \in 0..Len(Candidates)
    BY CandidatesGive
  <1>3. QED
    BY <1>1, <1>2 DEF Grows

-----------------------------------------------------------------------------
(* Answers.                                                                *)

\* The order of the rows agrees with what the answer means: a first rule there
\* is, as the rules are finitely many, and it allows just if one that allows
\* is not behind one that denies.
LEMMA FirstOf ==
  ASSUME NEW S, IsFiniteSet(S), S # {}, \A r \in S : r.priority \in Nat
  PROVE  \E r \in S : \A s \in S : Ahead(r, s)
  <1> DEFINE N == {n \in Nat : \A T \in SUBSET S : Cardinality(T) = n /\ T # {} => \E r \in T : \A s \in T : Ahead(r, s)}
  <1>1. 0 \in N
    <2>1. \A T \in SUBSET S : Cardinality(T) = 0 => T = {}
      BY FS_Subset, FS_EmptySet
    <2>2. QED
      BY <2>1
  <1>2. ASSUME NEW n \in N PROVE n + 1 \in N
    <2> SUFFICES ASSUME NEW T \in SUBSET S, Cardinality(T) = n + 1, T # {}
                 PROVE  \E r \in T : \A s \in T : Ahead(r, s)
      OBVIOUS
    <2>1. PICK x \in T : TRUE
      OBVIOUS
    <2>2. IsFiniteSet(T) /\ Cardinality(T \ {x}) = n
      <3>1. IsFiniteSet(T)
        BY FS_Subset
      <3>2. Cardinality(T \ {x}) = Cardinality(T) - 1
        BY <2>1, <3>1, FS_RemoveElement
      <3>3. QED
        BY <3>1, <3>2
    <2>3. CASE T \ {x} = {}
      BY <2>1, <2>3 DEF Ahead
    <2>4. CASE T \ {x} # {}
      <3>1. PICK r \in T \ {x} : \A s \in T \ {x} : Ahead(r, s)
        BY <1>2, <2>2, <2>4
      <3>2. \A s \in T : s.priority \in Nat
        OBVIOUS
      <3>3. CASE Ahead(r, x)
        BY <3>1, <3>3
      <3>4. CASE ~Ahead(r, x)
        <4>1. Ahead(x, r) /\ Ahead(x, x)
          BY <2>1, <3>1, <3>2, <3>4 DEF Ahead
        <4>2. \A s \in T \ {x} : Ahead(x, s)
          BY <2>1, <3>1, <3>2, <4>1 DEF Ahead
        <4>3. QED
          BY <2>1, <4>1, <4>2
      <3>5. QED
        BY <3>3, <3>4
    <2>5. QED
      BY <2>3, <2>4
  <1> HIDE DEF N
  <1>3. N = Nat
    BY <1>1, <1>2, Induction DEF N
  <1>4. Cardinality(S) \in N
    BY <1>3, FS_CardinalityType
  <1>5. QED
    BY <1>4 DEF N

RulesFit == IsFiniteSet(rules) /\ \A r \in rules : r.priority \in Nat /\ r.allow \in BOOLEAN

LEMMA DecideIsMay ==
  ASSUME RulesFit, NEW c, NEW f, c.who # Anonymous, Matching(rules, c, f) # {}
  PROVE  Decide(Matching(rules, c, f), c.need) <=> May(rules, c, f)
  <1> DEFINE R == Matching(rules, c, f)
             F == Fitting(R, c.need)
             first == CHOOSE r \in F : \A s \in F : Ahead(r, s)
  <1>1. rules # {} /\ R \subseteq rules /\ F \subseteq R /\ F = {r \in R : c.need \in r.mask}
    BY DEF Matching, Fitting, Covers
  <1>2. IsFiniteSet(F) /\ \A r \in F : r.priority \in Nat /\ r.allow \in BOOLEAN
    BY <1>1, FS_Subset DEF RulesFit
  <1>3. May(rules, c, f) <=> \E r \in F : r.allow /\ \A s \in F : ~s.allow => s.priority <= r.priority
    BY <1>1 DEF May
  <1>4. CASE F = {}
    BY <1>3, <1>4 DEF Decide
  <1>5. CASE F # {}
    <2>1. first \in F /\ \A s \in F : Ahead(first, s)
      BY <1>2, <1>5, FirstOf
    <2>2. Decide(R, c.need) <=> first.allow
      BY <1>5 DEF Decide
    <2> HIDE DEF first, F
    <2>3. first.allow => \A s \in F : ~s.allow => s.priority <= first.priority
      BY <1>2, <2>1 DEF Ahead
    <2>4. ~first.allow => \A r \in F : r.allow => first.priority > r.priority
      BY <1>2, <2>1 DEF Ahead
    <2>5. QED
      BY <1>2, <1>3, <2>1, <2>2, <2>3, <2>4
  <1>6. QED
    BY <1>4, <1>5

\* What a request that asks carries: what it has granted, it might have; what it
\* might have throughout, it has been granted or is yet to ask for, but for the
\* race of the first rule.  One that counts has seen no rule that matches.
AskStep(c) == AccessSteps[c.op][c.at]
Carried == AskFields \cup {"groups", "need"}
FairReq(c, R) ==
  /\ Carried \subseteq DOMAIN c
  /\ c.todo \in Seq(Files) /\ c.counting \in BOOLEAN
  /\ c.yes \subseteq c.ever
  /\ c.always \ c.raced \subseteq c.yes \cup RangeOf(c.todo)
  /\ \A f \in RangeOf(c.todo) : (May(R, c, f) => f \in c.ever) /\ (f \in c.always => May(R, c, f))
  /\ AskStep(c) = "rules" => c.todo # <<>>
  /\ AskStep(c) # "rules" => c.todo = <<>> /\ ~c.counting
  /\ AskStep(c) = "resolve" => c.yes = {}
  /\ c.counting => /\ c.who # Anonymous
                   /\ R = {} \/ Head(c.todo) \notin c.always \/ Head(c.todo) \in c.raced
Fair == \A p \in Requests : req[p].op \in Checks => FairReq(req[p], rules)

LEMMA SameMay ==
  ASSUME NEW R, NEW c, NEW d, d.who = c.who, d.groups = c.groups, d.need = c.need, NEW f
  PROVE  May(R, d, f) <=> May(R, c, f)
  <1>1. Matching(R, d, f) = Matching(R, c, f)
    BY DEF Matching
  <1>2. QED
    BY <1>1 DEF May

LEMMA BeginFair ==
  ASSUME NEW c, Carried \subseteq DOMAIN c, c.yes = {}, c.counting = FALSE,
         NEW todo \in Seq(Files), AskStep(c) = "rules", c.at \in Nat, AccessSteps[c.op][c.at + 1] \notin {"rules", "resolve"}
  PROVE  FairReq(Begin(c, todo), rules) /\ Begin(c, todo).op = c.op
  <1>1. PICK F : F = {f \in RangeOf(todo) : May(rules, c, f)}
    OBVIOUS
  <1>2. PICK n : n = IF todo = <<>> THEN c.at + 1 ELSE c.at
    OBVIOUS
  <1>3. PICK d : d = Begin(c, todo)
    OBVIOUS
  <1>4. d = [c EXCEPT !.at = n, !.todo = todo, !.ever = F, !.always = F]
    BY <1>1, <1>2, <1>3 DEF Begin, RangeOf, Carried, AskFields
  <1>5. /\ DOMAIN d = DOMAIN c /\ d.op = c.op /\ d.who = c.who /\ d.groups = c.groups /\ d.need = c.need
        /\ d.at = n /\ d.todo = todo /\ d.ever = F /\ d.always = F /\ d.yes = {} /\ d.counting = FALSE
    BY <1>4 DEF Carried, AskFields
  <1>6. \A f : May(rules, d, f) <=> May(rules, c, f)
    BY <1>5, SameMay
  <1>7. AskStep(d) = AccessSteps[c.op][n]
    BY <1>5 DEF AskStep
  <1>8. todo = <<>> => AskStep(d) \notin {"rules", "resolve"}
    BY <1>2, <1>7
  <1>9. todo # <<>> => AskStep(d) = "rules"
    BY <1>2, <1>7 DEF AskStep
  <1>10. FairReq(d, rules)
    BY <1>1, <1>5, <1>6, <1>8, <1>9 DEF FairReq
  <1>11. QED
    BY <1>3, <1>5, <1>10

LEMMA WatchedFair ==
  ASSUME NEW c, c.op \in Checks, FairReq(c, rules), NEW R, R # {}, rules \subseteq R
  PROVE  FairReq(Watched(c, R), R) /\ Watched(c, R).op = c.op
  <1>1. PICK F : F = RangeOf(c.todo)
    OBVIOUS
  <1>2. PICK e : e = c.ever \cup {f \in F : May(R, c, f)}
    OBVIOUS
  <1>3. PICK a : a = {f \in c.always : f \in F => May(R, c, f)}
    OBVIOUS
  <1>4. PICK x : x = IF c.counting /\ rules = {} THEN c.raced \cup {Head(c.todo)} ELSE c.raced
    OBVIOUS
  <1>5. PICK d : d = Watched(c, R)
    OBVIOUS
  <1>6. d = [c EXCEPT !.ever = e, !.always = a, !.raced = x]
    BY <1>1, <1>2, <1>3, <1>4, <1>5 DEF Watched, RangeOf, FairReq, Carried, AskFields
  <1>7. /\ DOMAIN d = DOMAIN c /\ d.op = c.op /\ d.who = c.who /\ d.groups = c.groups /\ d.need = c.need
        /\ d.at = c.at /\ d.todo = c.todo /\ d.yes = c.yes /\ d.counting = c.counting
        /\ d.ever = e /\ d.always = a /\ d.raced = x
    BY <1>6 DEF FairReq, Carried, AskFields
  <1>8. \A f : May(R, d, f) <=> May(R, c, f)
    BY <1>7, SameMay
  <1>9. AskStep(d) = AskStep(c)
    BY <1>7 DEF AskStep
  <1>10. d.always \ d.raced \subseteq d.yes \cup RangeOf(d.todo)
    BY <1>3, <1>4, <1>7 DEF FairReq
  <1>11. d.counting => R = {} \/ Head(d.todo) \notin d.always \/ Head(d.todo) \in d.raced
    BY <1>3, <1>4, <1>7 DEF FairReq
  <1>12. \A f \in RangeOf(d.todo) : (May(R, d, f) => f \in d.ever) /\ (f \in d.always => May(R, d, f))
    BY <1>1, <1>2, <1>3, <1>7, <1>8
  <1>13. d.yes \subseteq d.ever
    BY <1>2, <1>7 DEF FairReq
  <1>14. FairReq(d, R)
    BY <1>7, <1>9, <1>10, <1>11, <1>12, <1>13 DEF FairReq
  <1>15. QED
    BY <1>5, <1>7, <1>14

\* What is left to ask for.
LEMMA TailRange ==
  ASSUME NEW s \in Seq(Files), s # <<>>
  PROVE  Tail(s) \in Seq(Files) /\ RangeOf(s) = {Head(s)} \cup RangeOf(Tail(s))
  <1>1. PICK h : h = Head(s)
    OBVIOUS
  <1>2. PICK t : t = Tail(s)
    OBVIOUS
  <1>3. t \in Seq(Files) /\ RangeOf(s) = {h} \cup RangeOf(t)
    <2>1. t \in Seq(Files) /\ Len(t) = Len(s) - 1 /\ \A i \in 1..Len(t) : t[i] = s[i + 1]
      BY <1>2, HeadTailProperties
    <2>2. DOMAIN s = 1..Len(s) /\ Len(s) \in Nat /\ Len(s) # 0 /\ h = s[1]
      BY <1>1
    <2>3. DOMAIN t = 1..Len(t) /\ Len(t) \in Nat
      BY <2>1
    <2>4. \A i \in 1..Len(s) : i = 1 \/ i - 1 \in 1..Len(t)
      BY <2>1, <2>2
    <2>5. \A i \in 1..Len(t) : i + 1 \in 1..Len(s)
      BY <2>1, <2>2
    <2>6. RangeOf(s) \subseteq {h} \cup RangeOf(t)
      <3> SUFFICES ASSUME NEW i \in 1..Len(s) PROVE s[i] \in {h} \cup RangeOf(t)
        BY <2>2 DEF RangeOf
      <3>1. CASE i = 1
        BY <2>2, <3>1
      <3>2. CASE i # 1
        <4>1. i - 1 \in 1..Len(t) /\ (i - 1) + 1 = i
          BY <2>2, <2>4, <3>2
        <4>2. t[i - 1] = s[i]
          BY <2>1, <4>1
        <4>3. QED
          BY <2>3, <4>1, <4>2 DEF RangeOf
      <3>3. QED
        BY <3>1, <3>2
    <2>7. {h} \cup RangeOf(t) \subseteq RangeOf(s)
      <3>1. h \in RangeOf(s)
        <4>1. 1 \in DOMAIN s
          BY <2>2
        <4>2. QED
          BY <2>2, <4>1 DEF RangeOf
      <3>2. ASSUME NEW i \in 1..Len(t) PROVE t[i] \in RangeOf(s)
        BY <2>1, <2>2, <2>5, <3>2 DEF RangeOf
      <3>3. QED
        BY <2>3, <3>1, <3>2 DEF RangeOf
    <2>8. QED
      BY <2>1, <2>6, <2>7
  <1>4. QED
    BY <1>1, <1>2, <1>3

LEMMA AnsweredFair ==
  ASSUME NEW c, c.op \in Checks, c.at \in DOMAIN AccessSteps[c.op], FairReq(c, rules), AskStep(c) = "rules",
         NEW granted \in BOOLEAN, NEW h, h = Head(c.todo), NEW t, t = Tail(c.todo),
         granted => h \in c.ever,
         ~granted => h \notin c.always \/ h \in c.raced,
         NEW e, DOMAIN e = DOMAIN c, e.op = c.op, e.who = c.who, e.groups = c.groups, e.need = c.need,
         t # <<>> => e.at = c.at,
         t = <<>> => e.at = c.at + 1 \/ (c.op = "admin" /\ e.at = c.at + 2),
         e.todo = t, e.yes = IF granted THEN c.yes \cup {h} ELSE c.yes, e.counting = FALSE,
         e.ever = c.ever, e.always = c.always, e.raced = c.raced
  PROVE  FairReq(e, rules)
  <1>1. t \in Seq(Files) /\ RangeOf(c.todo) = {h} \cup RangeOf(t)
    BY TailRange DEF FairReq
  <1>2. \A f : May(rules, e, f) <=> May(rules, c, f)
    BY SameMay
  <1>3. t # <<>> => AskStep(e) = "rules"
    BY DEF AskStep
  <1>4. t = <<>> => AskStep(e) \notin {"rules", "resolve"}
    BY AskStepNames DEF AskStep, Checks
  <1>5. e.yes \subseteq e.ever
    BY DEF FairReq
  <1>6. e.always \ e.raced \subseteq e.yes \cup RangeOf(e.todo)
    BY <1>1 DEF FairReq
  <1>7. \A f \in RangeOf(e.todo) : (May(rules, e, f) => f \in e.ever) /\ (f \in e.always => May(rules, e, f))
    BY <1>1, <1>2 DEF FairReq
  <1>8. Carried \subseteq DOMAIN e
    BY DEF FairReq
  <1>9. QED
    BY <1>1, <1>3, <1>4, <1>5, <1>6, <1>7, <1>8 DEF FairReq

LEMMA AskingStarts ==
  ASSUME NEW op, NEW u
  PROVE  /\ Carried \subseteq DOMAIN Asking(op, u)
         /\ Asking(op, u).op = op /\ Asking(op, u).at = 1 /\ Asking(op, u).yes = {} /\ Asking(op, u).counting = FALSE
         /\ Asking(op, u).always = {} /\ Asking(op, u).todo = <<>>
         /\ Asking(op, u).ever = {} /\ Asking(op, u).raced = {}
  BY DEF Asking, Carried, AskFields

\* A request that asks, as it comes.
LEMMA ArrivalsFair ==
  ASSUME Shape, Fair, NEW p \in Requests, ArriveOpen(p) \/ ArriveUpload(p) \/ ArriveList(p) \/ ArriveAdmin(p)
  PROVE  Fair'
  <1>a. ASSUME NEW c, Arrive(p, c), c.op \in Checks => FairReq(c, rules) PROVE Fair'
    <2>1. req' = [req EXCEPT ![p] = c] /\ rules' = rules
      BY <1>a DEF Arrive, accessVars
    <2>2. \A q \in Requests : req'[q] = IF q = p THEN c ELSE req[q]
      BY <2>1 DEF Shape
    <2>3. \A q \in Requests : req'[q].op \in Checks => FairReq(req'[q], rules)
      BY <1>a, <2>2 DEF Fair
    <2>4. QED
      BY <2>1, <2>3 DEF Fair
  <1>1. CASE ArriveOpen(p)
    <2>1. PICK u \in Callers, f \in There, n \in Needs :
            Arrive(p, Begin([Asking("open", u) EXCEPT !.need = n], <<f>>))
      BY <1>1 DEF ArriveOpen
    <2>2. PICK c : c = [Asking("open", u) EXCEPT !.need = n]
      OBVIOUS
    <2>3. Carried \subseteq DOMAIN c /\ c.op = "open" /\ c.at = 1 /\ c.yes = {} /\ c.counting = FALSE
      BY <2>2, AskingStarts DEF Carried, AskFields
    <2>4. AskStep(c) = "rules" /\ AccessSteps[c.op][c.at + 1] \notin {"rules", "resolve"}
      BY <2>3, AskStepNames DEF AskStep
    <2>5. PICK s \in Seq(Files) : s = <<f>>
      <3>1. f \in Files
        BY DEF There, Shape
      <3>2. <<f>> \in Seq(Files)
        BY <3>1
      <3>3. QED
        BY <3>2
    <2>6. FairReq(Begin(c, s), rules)
      <3>1. c.at \in Nat
        BY <2>3
      <3>2. QED
        BY <2>3, <2>4, <3>1, BeginFair
    <2>7. QED
      BY <1>a, <2>1, <2>2, <2>5, <2>6
  <1>2. CASE ArriveUpload(p)
    <2>1. PICK u \in Users : Arrive(p, Asking("upload", u))
      BY <1>2 DEF ArriveUpload
    <2>2. Asking("upload", u).op \notin Checks
      <3>1. Asking("upload", u).op = "upload"
        BY AskingStarts
      <3>2. QED
        BY <3>1 DEF Checks
    <2>3. QED
      BY <1>a, <2>1, <2>2
  <1>3. CASE ArriveList(p)
    <2>1. PICK u \in Callers, q \in FilterIds :
            Arrive(p, [Asking("list", u) EXCEPT !.id = q, !.need = "VIEW"])
      BY <1>3 DEF ArriveList
    <2>2. PICK c : c = [Asking("list", u) EXCEPT !.id = q, !.need = "VIEW"]
      OBVIOUS
    <2>3. /\ Carried \subseteq DOMAIN c /\ c.op = "list" /\ c.at = 1 /\ c.yes = {} /\ c.counting = FALSE
          /\ c.ever = {} /\ c.always = {} /\ c.raced = {} /\ c.todo = <<>>
      BY <2>2, AskingStarts DEF Carried, AskFields
    <2>4. AskStep(c) = "resolve"
      BY <2>3, AskStepNames DEF AskStep
    <2>5. FairReq(c, rules)
      <3>1. RangeOf(c.todo) = {} /\ c.todo \in Seq(Files)
        BY <2>3 DEF RangeOf
      <3>2. QED
        BY <2>3, <2>4, <3>1 DEF FairReq
    <2>6. QED
      BY <1>a, <2>1, <2>2, <2>5
  <1>4. CASE ArriveAdmin(p)
    <2>1. PICK u \in Callers, f \in There, e \in Untils :
            Arrive(p, Begin([Asking("admin", u) EXCEPT !.need = "ADMIN", !.id = f, !.until = e], <<f>>))
      BY <1>4 DEF ArriveAdmin
    <2>2. PICK c : c = [Asking("admin", u) EXCEPT !.need = "ADMIN", !.id = f, !.until = e]
      OBVIOUS
    <2>3. Carried \subseteq DOMAIN c /\ c.op = "admin" /\ c.at = 1 /\ c.yes = {} /\ c.counting = FALSE
      <3>1. PICK a : a = Asking("admin", u)
        OBVIOUS
      <3>2. Carried \subseteq DOMAIN a /\ a.op = "admin" /\ a.at = 1 /\ a.yes = {} /\ a.counting = FALSE
        BY <3>1 DEF Asking, Carried, AskFields
      <3>3. c = [a EXCEPT !.need = "ADMIN", !.id = f, !.until = e]
        BY <2>2, <3>1
      <3>4. QED
        BY <3>2, <3>3 DEF Carried, AskFields
    <2>4. AskStep(c) = "rules" /\ AccessSteps[c.op][c.at + 1] \notin {"rules", "resolve"}
      BY <2>3, AskStepNames DEF AskStep
    <2>5. PICK s \in Seq(Files) : s = <<f>>
      <3>1. f \in Files
        BY DEF There, Shape
      <3>2. <<f>> \in Seq(Files)
        BY <3>1
      <3>3. QED
        BY <3>2
    <2>6. FairReq(Begin(c, s), rules)
      <3>1. c.at \in Nat
        BY <2>3
      <3>2. QED
        BY <2>3, <2>4, <3>1, BeginFair
    <2>7. QED
      BY <1>a, <2>1, <2>2, <2>5, <2>6
  <1>5. QED
    BY <1>1, <1>2, <1>3, <1>4

\* A step that touches no rule and only the request p.
LEMMA OneFair ==
  ASSUME Shape, Fair, NEW p \in Requests, NEW c, req' = [req EXCEPT ![p] = c], UNCHANGED rules,
         c.op \in Checks => FairReq(c, rules)
  PROVE  Fair'
  <1>1. \A q \in Requests : req'[q] = IF q = p THEN c ELSE req[q]
    BY DEF Shape
  <1>2. \A q \in Requests : req'[q].op \in Checks => FairReq(req'[q], rules)
    BY <1>1 DEF Fair
  <1>3. QED
    BY <1>2 DEF Fair

LEMMA AddsFair ==
  ASSUME Shape, Fair, NEW p, NEW r, NEW c, Adds(p, r, c), p \notin Requests \/ c.op \notin Checks
  PROVE  Fair'
  <1>1. PICK R : R = rules \cup {r}
    OBVIOUS
  <1>2. rules' = R /\ rules \subseteq R /\ R # {}
    BY <1>1 DEF Adds
  <1>3. ASSUME NEW q \in Requests, req'[q].op \in Checks PROVE FairReq(req'[q], R)
    <2>1. q # p /\ req'[q] = Watched(req[q], R)
      BY <1>1, <1>3 DEF Adds
    <2>2. req[q].op \in Checks
      BY <1>3, <2>1 DEF Watched
    <2>3. QED
      BY <1>2, <2>1, <2>2, WatchedFair DEF Fair
  <1>4. QED
    BY <1>2, <1>3 DEF Fair

LEMMA ChecksTell ==
  ASSUME Shape, Fair, NEW p \in Requests, AStep(p) = "rules" \/ AStep(p) = "resolve" \/ AStep(p) = "issue"
  PROVE  /\ req[p].op \in Checks /\ req[p].at \in DOMAIN AccessSteps[req[p].op] /\ AskReqOk(req[p])
         /\ FairReq(req[p], rules) /\ AStep(p) = AskStep(req[p])
         /\ AStep(p) = "resolve" => req[p].op = "list" /\ req[p].at = 1
         /\ AStep(p) = "issue" => req[p].op = "admin" /\ req[p].at = 2
  <1>1. AStep(p) # None
    BY NoneIsNoStep
  <1>2. req[p].op \in AskOps /\ AskReqOk(req[p])
    BY <1>1, AskTells
  <1>3. AStep(p) = AskStep(req[p])
    BY <1>2 DEF AStep, AskStep, AskOps
  <1>4. req[p].at \in DOMAIN AccessSteps[req[p].op]
    BY <1>2 DEF AskReqOk
  <1>5. /\ req[p].op \in Checks
        /\ AStep(p) = "resolve" => req[p].op = "list" /\ req[p].at = 1
        /\ AStep(p) = "issue" => req[p].op = "admin" /\ req[p].at = 2
    BY <1>2, <1>3, <1>4, OpsApart, AskStepNames DEF AskStep, Checks
  <1>6. QED
    BY <1>2, <1>3, <1>4, <1>5 DEF Fair

LEMMA AnswersAreFair ==
  ASSUME Shape, Fair, NEW p \in Requests, AStep(p) = "rules", NEW granted \in BOOLEAN, Answer(p, granted),
         UNCHANGED rules,
         granted => Head(req[p].todo) \in req[p].ever,
         ~granted => Head(req[p].todo) \notin req[p].always \/ Head(req[p].todo) \in req[p].raced
  PROVE  Fair'
  <1>1. PICK c : c = req[p]
    OBVIOUS
  <1>2. PICK h : h = Head(c.todo)
    OBVIOUS
  <1>3. PICK t : t = Tail(c.todo)
    OBVIOUS
  <1>4. PICK y : y = IF granted THEN c.yes \cup {h} ELSE c.yes
    OBVIOUS
  <1>5. PICK d : d = [c EXCEPT !.yes = y, !.todo = t, !.counting = FALSE]
    OBVIOUS
  <1>6. PICK e : e = IF d.todo # <<>> THEN d
                     ELSE [d EXCEPT !.at = IF c.op = "admin" /\ ~granted THEN @ + 2 ELSE @ + 1]
    OBVIOUS
  <1>7. req' = [req EXCEPT ![p] = e]
    BY <1>1, <1>2, <1>3, <1>4, <1>5, <1>6 DEF Answer
  <1>8. c.op \in Checks /\ c.at \in DOMAIN AccessSteps[c.op] /\ FairReq(c, rules) /\ AskStep(c) = "rules"
    BY <1>1, ChecksTell
  <1>9. Carried \subseteq DOMAIN c
    BY <1>8 DEF FairReq
  <1>10. /\ DOMAIN d = DOMAIN c /\ d.op = c.op /\ d.who = c.who /\ d.groups = c.groups /\ d.need = c.need
         /\ d.at = c.at /\ d.todo = t /\ d.yes = y /\ d.counting = FALSE
         /\ d.ever = c.ever /\ d.always = c.always /\ d.raced = c.raced
    BY <1>5, <1>9 DEF Carried, AskFields
  <1>11. /\ DOMAIN e = DOMAIN c /\ e.op = c.op /\ e.who = c.who /\ e.groups = c.groups /\ e.need = c.need
         /\ t # <<>> => e.at = c.at
         /\ t = <<>> => e.at = c.at + 1 \/ (c.op = "admin" /\ e.at = c.at + 2)
         /\ e.todo = t /\ e.yes = y /\ e.counting = FALSE
         /\ e.ever = c.ever /\ e.always = c.always /\ e.raced = c.raced
    <2>1. CASE t # <<>>
      BY <1>6, <1>10, <2>1
    <2>2. CASE t = <<>>
      <3>1. PICK n : n = IF c.op = "admin" /\ ~granted THEN c.at + 2 ELSE c.at + 1
        OBVIOUS
      <3>2. e = [d EXCEPT !.at = n]
        BY <1>6, <1>10, <2>2, <3>1
      <3>3. QED
        BY <1>9, <1>10, <2>2, <3>1, <3>2 DEF Carried, AskFields
    <2>3. QED
      BY <2>1, <2>2
  <1>12. (granted => h \in c.ever) /\ (~granted => h \notin c.always \/ h \in c.raced)
    BY <1>1, <1>2
  <1>13. FairReq(e, rules)
    BY <1>2, <1>3, <1>4, <1>8, <1>11, <1>12, AnsweredFair
  <1>14. QED
    BY <1>7, <1>13, OneFair

LEMMA HeadMay ==
  ASSUME NEW c, FairReq(c, rules), AskStep(c) = "rules"
  PROVE  /\ May(rules, c, Head(c.todo)) => Head(c.todo) \in c.ever
         /\ Head(c.todo) \in c.always => May(rules, c, Head(c.todo))
  <1>1. c.todo \in Seq(Files) /\ c.todo # <<>>
    BY DEF FairReq
  <1>2. 1 \in DOMAIN c.todo /\ Head(c.todo) = c.todo[1]
    BY <1>1
  <1>3. Head(c.todo) \in RangeOf(c.todo)
    BY <1>2 DEF RangeOf
  <1>4. QED
    BY <1>3 DEF FairReq

LEMMA MatchFair ==
  ASSUME Shape, Fair, RulesFit, NEW p \in Requests, MatchRules(p)
  PROVE  Fair'
  <1>1. PICK c : c = req[p]
    OBVIOUS
  <1>2. PICK h : h = Head(c.todo)
    OBVIOUS
  <1>3. PICK R : R = Matching(rules, c, h)
    OBVIOUS
  <1>4. /\ AStep(p) = "rules" /\ ~c.counting /\ UNCHANGED rules
        /\ IF c.who = Anonymous THEN Answer(p, c.need \in Public)
           ELSE IF R = {} THEN req' = [req EXCEPT ![p].counting = TRUE]
           ELSE Answer(p, Decide(R, c.need))
    BY <1>1, <1>2, <1>3 DEF MatchRules, accessVars
  <1>5. c.op \in Checks /\ FairReq(c, rules) /\ AskStep(c) = "rules"
    BY <1>1, <1>4, ChecksTell
  <1>6. (May(rules, c, h) => h \in c.ever) /\ (h \in c.always => May(rules, c, h))
    BY <1>2, <1>5, HeadMay
  <1>7. CASE c.who = Anonymous
    <2>1. May(rules, c, h) <=> c.need \in Public
      BY <1>7 DEF May
    <2>2. (c.need \in Public) \in BOOLEAN
      OBVIOUS
    <2>3. Answer(p, c.need \in Public)
      BY <1>4, <1>7
    <2>4. QED
      BY <1>1, <1>2, <1>4, <1>6, <2>1, <2>2, <2>3, AnswersAreFair
  <1>8. CASE c.who # Anonymous /\ R = {}
    <2>1. PICK d : d = [c EXCEPT !.counting = TRUE]
      OBVIOUS
    <2>2. req' = [req EXCEPT ![p] = d]
      BY <1>1, <1>4, <1>8, <2>1 DEF Shape
    <2>3. /\ DOMAIN d = DOMAIN c /\ d.op = c.op /\ d.who = c.who /\ d.groups = c.groups /\ d.need = c.need
          /\ d.at = c.at /\ d.todo = c.todo /\ d.yes = c.yes /\ d.counting = TRUE
          /\ d.ever = c.ever /\ d.always = c.always /\ d.raced = c.raced
      BY <1>5, <2>1 DEF FairReq, Carried, AskFields
    <2>4. \A f : May(rules, d, f) <=> May(rules, c, f)
      BY <2>3, SameMay
    <2>5. AskStep(d) = AskStep(c)
      BY <2>3 DEF AskStep
    <2>6. rules = {} \/ h \notin c.always
      BY <1>3, <1>6, <1>8 DEF May
    <2>7. FairReq(d, rules)
      BY <1>2, <1>5, <1>8, <2>3, <2>4, <2>5, <2>6 DEF FairReq
    <2>8. QED
      BY <1>4, <2>2, <2>7, OneFair
  <1>9. CASE c.who # Anonymous /\ R # {}
    <2>1. Decide(R, c.need) <=> May(rules, c, h)
      BY <1>3, <1>9, DecideIsMay
    <2>2. Decide(R, c.need) \in BOOLEAN
      <3>1. Decide(R, c.need) \in BOOLEAN
        BY DEF Decide
      <3>2. QED
        BY <3>1
    <2>3. Answer(p, Decide(R, c.need))
      BY <1>4, <1>9
    <2>4. QED
      BY <1>1, <1>2, <1>4, <1>6, <2>1, <2>2, <2>3, AnswersAreFair
  <1>10. QED
    BY <1>7, <1>8, <1>9

LEMMA CountFair ==
  ASSUME Shape, Fair, NEW p \in Requests, CountRules(p)
  PROVE  Fair'
  <1>1. PICK c : c = req[p]
    OBVIOUS
  <1>2. AStep(p) = "rules" /\ c.counting /\ UNCHANGED rules /\ Answer(p, rules = {})
    BY <1>1 DEF CountRules, accessVars
  <1>3. FairReq(c, rules) /\ AskStep(c) = "rules"
    BY <1>1, <1>2, ChecksTell
  <1>4. (May(rules, c, Head(c.todo)) => Head(c.todo) \in c.ever)
    BY <1>3, HeadMay
  <1>5. c.who # Anonymous /\ (rules = {} \/ Head(c.todo) \notin c.always \/ Head(c.todo) \in c.raced)
    BY <1>2, <1>3 DEF FairReq
  <1>6. rules = {} => Head(c.todo) \in c.ever
    BY <1>4, <1>5 DEF May
  <1>7. (rules = {}) \in BOOLEAN
    OBVIOUS
  <1>8. QED
    BY <1>1, <1>2, <1>5, <1>6, <1>7, AnswersAreFair

LEMMA ResolveFair ==
  ASSUME Shape, Fair, NEW p \in Requests, ResolveFilter(p)
  PROVE  Fair'
  <1>1. PICK c : c = req[p]
    OBVIOUS
  <1>2. /\ AStep(p) = "resolve" /\ UNCHANGED rules
        /\ req' = [req EXCEPT ![p] = IF ~Exists(c.id) THEN Idle
                     ELSE Begin([c EXCEPT !.at = 2], Resolve(filter[c.id].def))]
    BY <1>1 DEF ResolveFilter, accessVars
  <1>3. c.op = "list" /\ c.at = 1 /\ FairReq(c, rules) /\ AskStep(c) = "resolve"
    BY <1>1, <1>2, ChecksTell
  <1>4. CASE ~Exists(c.id)
    <2>1. Idle.op \notin Checks
      BY OpsApart DEF Idle, Checks
    <2>2. QED
      BY <1>2, <1>4, <2>1, OneFair
  <1>5. CASE Exists(c.id)
    <2>1. PICK d : d = [c EXCEPT !.at = 2]
      OBVIOUS
    <2>2. PICK s : s = Resolve(filter[c.id].def)
      OBVIOUS
    <2>3. Carried \subseteq DOMAIN d /\ d.op = "list" /\ d.at = 2 /\ d.yes = {} /\ d.counting = FALSE
      BY <1>3, <2>1 DEF FairReq, Carried, AskFields
    <2>4. AskStep(d) = "rules" /\ AccessSteps[d.op][d.at + 1] \notin {"rules", "resolve"}
      BY <2>3, AskStepNames DEF AskStep
    <2>5. s \in Seq(Files)
      BY <2>2, ResolvesToFiles DEF Shape
    <2>6. FairReq(Begin(d, s), rules)
      <3>1. d.at \in Nat
        BY <2>3
      <3>2. QED
        BY <2>3, <2>4, <2>5, <3>1, BeginFair
    <2>7. req' = [req EXCEPT ![p] = Begin(d, s)]
      BY <1>2, <1>5, <2>1, <2>2
    <2>8. QED
      BY <1>2, <2>6, <2>7, OneFair
  <1>6. QED
    BY <1>4, <1>5

LEMMA IssueFair ==
  ASSUME Shape, Fair, NEW p \in Requests, IssueFile(p)
  PROVE  Fair'
  <1>1. PICK c : c = req[p]
    OBVIOUS
  <1>2. AStep(p) = "issue" /\ UNCHANGED rules /\ req' = [req EXCEPT ![p].at = 3]
    BY DEF IssueFile, accessVars
  <1>3. c.op = "admin" /\ c.at = 2 /\ FairReq(c, rules) /\ AskStep(c) = "issue"
    BY <1>1, <1>2, ChecksTell
  <1>4. PICK d : d = [c EXCEPT !.at = 3]
    OBVIOUS
  <1>5. req' = [req EXCEPT ![p] = d]
    BY <1>1, <1>2, <1>4 DEF Shape
  <1>6. /\ DOMAIN d = DOMAIN c /\ d.op = c.op /\ d.who = c.who /\ d.groups = c.groups /\ d.need = c.need
        /\ d.at = 3 /\ d.todo = c.todo /\ d.yes = c.yes /\ d.counting = c.counting
        /\ d.ever = c.ever /\ d.always = c.always /\ d.raced = c.raced
    BY <1>3, <1>4 DEF FairReq, Carried, AskFields
  <1>7. AskStep(d) = "reply"
    BY <1>3, <1>6, AskStepNames DEF AskStep
  <1>8. \A f : May(rules, d, f) <=> May(rules, c, f)
    BY <1>6, SameMay
  <1>9. FairReq(d, rules)
    BY <1>3, <1>6, <1>7, <1>8 DEF FairReq
  <1>10. QED
    BY <1>2, <1>5, <1>9, OneFair

LEMMA AccessFair ==
  ASSUME Shape, Fair, RulesFit, AccessOnly
  PROVE  Fair'
  <1>1. ASSUME NEW p \in Requests, ArriveOpen(p) \/ ArriveUpload(p) \/ ArriveList(p) \/ ArriveAdmin(p) PROVE Fair'
    BY <1>1, ArrivalsFair
  <1>2. ASSUME NEW p \in Requests, MatchRules(p) PROVE Fair'
    BY <1>2, MatchFair
  <1>3. ASSUME NEW p \in Requests, CountRules(p) PROVE Fair'
    BY <1>3, CountFair
  <1>4. ASSUME NEW p \in Requests, ResolveFilter(p) PROVE Fair'
    BY <1>4, ResolveFair
  <1>5. ASSUME NEW p \in Requests, IssueFile(p) PROVE Fair'
    BY <1>5, IssueFair
  <1>6. ASSUME NEW p \in Requests, CreateFile(p) \/ OwnFile(p) PROVE AskReqOk(req[p]) /\ req[p].op = "upload"
    <2>1. AStep(p) \in {"file", "rule"} /\ AStep(p) # None
      BY <1>6, NoneIsNoStep DEF CreateFile, OwnFile
    <2>2. AskReqOk(req[p]) /\ req[p].op \in AskOps
      BY <2>1, AskTells
    <2>3. QED
      BY <2>1, <2>2, OpsApart, AskStepNames DEF AStep, AskReqOk
  <1>7. ASSUME NEW p \in Requests, CreateFile(p) PROVE Fair'
    <2>1. PICK f : req' = [req EXCEPT ![p].at = 2, ![p].id = f]
      BY <1>7 DEF CreateFile
    <2>2. PICK c : c = [[req[p] EXCEPT !.at = 2] EXCEPT !.id = f]
      OBVIOUS
    <2>3. req' = [req EXCEPT ![p] = c]
      BY <2>1, <2>2 DEF Shape
    <2>4. c.op = "upload"
      BY <1>6, <1>7, <2>2 DEF AskReqOk, AskFields
    <2>5. c.op \notin Checks /\ UNCHANGED rules
      BY <1>7, <2>4 DEF Checks, CreateFile
    <2>6. QED
      BY <2>3, <2>5, OneFair
  <1>8. ASSUME NEW p \in Requests, OwnFile(p) PROVE Fair'
    <2>1. PICK r, c : Adds(p, r, c) /\ c = [req[p] EXCEPT !.at = 3]
      BY <1>8 DEF OwnFile
    <2>2. c.op \notin Checks
      BY <1>6, <1>8, <2>1 DEF AskReqOk, AskFields, Checks
    <2>3. QED
      BY <2>1, <2>2, AddsFair
  <1>9. ASSUME NEW p \in Requests, Respond(p) PROVE Fair'
    <2>1. req' = [req EXCEPT ![p] = Idle] /\ UNCHANGED rules
      BY <1>9 DEF Respond, Stop, accessVars
    <2>2. Idle.op \notin Checks
      BY OpsApart DEF Idle, Checks
    <2>3. QED
      BY <2>1, <2>2, OneFair
  <1>10. CASE AddRule
    <2>1. PICK r : Adds(None, r, Idle)
      BY <1>10 DEF AddRule
    <2>2. QED
      BY <2>1, AddsFair, NoneAskedAssumption
  <1>11. CASE ChangeGroup
    BY <1>11 DEF ChangeGroup, Fair
  <1>12. QED
    BY <1>1, <1>2, <1>3, <1>4, <1>5, <1>7, <1>8, <1>9, <1>10, <1>11 DEF AccessOnly, AccessStep

LEMMA SharesFair ==
  ASSUME Shape, Fair, NEW p \in Requests, SharesStep(p), UNCHANGED accessVars
  PROVE  Fair'
  <1>1. ASSUME NEW q \in Requests, req'[q].op \in Checks PROVE req'[q] = req[q]
    <2>1. req'[q].op \notin OwnOps /\ req'[q] # Idle
      BY <1>1, OpsApart DEF Checks, Idle
    <2>2. CASE Proceeds(p)
      BY <2>1, <2>2 DEF Proceeds
    <2>3. CASE Comes(p)
      <3>1. PICK c : New(c) /\ Arrives(p, c)
        BY <2>3 DEF Comes
      <3>2. q = p => req'[q].op = c.op
        BY <3>1 DEF New, ShareReqOk, ShareReq, Arrives, Shape
      <3>3. CASE q # p
        <4>1. req'[q] = req[q] \/ (req'[q] = [req[q] EXCEPT !.alone = FALSE] /\ req[q].op \in Writes)
          BY <3>1, <3>3 DEF Arrives, Meets
        <4>2. req[q].op \in Writes => ShareReqOk(req[q])
          BY OpsApart DEF Shape, AskReqOk, Writes
        <4>3. CASE req'[q] = [req[q] EXCEPT !.alone = FALSE] /\ req[q].op \in Writes
          <5>1. req[q] \in ShareReq
            BY <4>2, <4>3 DEF ShareReqOk
          <5>2. req'[q].op = req[q].op
            BY <4>3, <5>1 DEF ShareReq
          <5>3. QED
            BY <1>1, <4>3, <5>2 DEF Writes, Checks
        <4>4. QED
          BY <4>1, <4>3
      <3>4. QED
        BY <2>1, <3>1, <3>2, <3>3 DEF New
    <2>4. QED
      BY <2>2, <2>3, GoesOn
  <1>2. UNCHANGED rules
    BY DEF accessVars
  <1>3. \A q \in Requests : req'[q].op \in Checks => FairReq(req'[q], rules)
    BY <1>1 DEF Fair
  <1>4. QED
    BY <1>2, <1>3 DEF Fair

LEMMA RulesStayFit ==
  ASSUME RulesFit, [Next]_vars
  PROVE  RulesFit'
  <1>a. ASSUME NEW r, r.priority \in Nat, r.allow \in BOOLEAN, rules' = rules \cup {r} PROVE RulesFit'
    BY <1>a, FS_AddElement DEF RulesFit
  <1>1. ASSUME NEW p \in Requests, OwnFile(p) PROVE RulesFit'
    <2>1. PICK r : r = OwnerRule(req[p].who, req[p].id)
      OBVIOUS
    <2>2. rules' = rules \cup {r}
      BY <1>1, <2>1 DEF OwnFile, Adds
    <2>3. r.priority \in Nat /\ r.allow \in BOOLEAN
      BY <2>1, AccessAssumption DEF OwnerRule
    <2>4. QED
      BY <1>a, <2>2, <2>3
  <1>2. CASE AddRule
    <2>1. PICK u \in Users \cup Groups, f \in There, o \in Offers :
            rules' = rules \cup {[subject |-> u, file |-> f, mask |-> o.mask,
                                  allow |-> o.allow, priority |-> o.priority]}
      BY <1>2 DEF AddRule, Adds
    <2>2. o.priority \in Nat /\ o.allow \in BOOLEAN
      BY AccessAssumption
    <2>3. PICK r : r = [subject |-> u, file |-> f, mask |-> o.mask, allow |-> o.allow, priority |-> o.priority]
      OBVIOUS
    <2>4. QED
      BY <1>a, <2>1, <2>2, <2>3
  <1>3. CASE UNCHANGED rules
    BY <1>3 DEF RulesFit
  <1>4. QED
    BY <1>1, <1>2, <1>3
       DEF Next, AccessStep, ChangeGroup, Arrive, ArriveOpen, ArriveUpload, ArriveList,
           ArriveAdmin, MatchRules, CountRules, ResolveFilter, CreateFile, IssueFile,
           Respond, accessVars, vars

LEMMA RulesFitAtFirst ==
  ASSUME Init
  PROVE  RulesFit
  <1>1. PICK owner \in [RangeOf(FirstFiles) -> Users \cup {None}] :
          rules = {OwnerRule(owner[f], f) : f \in {g \in DOMAIN owner : owner[g] # None}}
    BY DEF Init, RangeOf
  <1>2. PICK F : F = {g \in RangeOf(FirstFiles) : owner[g] # None}
    OBVIOUS
  <1>3. rules = {OwnerRule(owner[f], f) : f \in F}
    BY <1>1, <1>2
  <1>4. IsFiniteSet(RangeOf(FirstFiles))
    <2>1. IsFiniteSet(1..Len(FirstFiles)) /\ DOMAIN FirstFiles = 1..Len(FirstFiles)
      BY AccessAssumption, FS_Interval
    <2>2. PICK g : g = [i \in 1..Len(FirstFiles) |-> FirstFiles[i]]
      OBVIOUS
    <2>3. RangeOf(FirstFiles) = {g[i] : i \in 1..Len(FirstFiles)}
      BY <2>1, <2>2 DEF RangeOf
    <2>4. g \in Surjection(1..Len(FirstFiles), RangeOf(FirstFiles))
      BY <2>2, <2>3 DEF Surjection
    <2>5. QED
      BY <2>1, <2>4, FS_Surjection
  <1>5. IsFiniteSet(F)
    BY <1>2, <1>4, FS_Subset
  <1>6. IsFiniteSet(rules)
    <2>1. PICK g : g = [f \in F |-> OwnerRule(owner[f], f)]
      OBVIOUS
    <2>2. rules = {g[f] : f \in F}
      BY <1>3, <2>1
    <2>3. g \in Surjection(F, rules)
      BY <2>1, <2>2 DEF Surjection
    <2>4. QED
      BY <1>5, <2>3, FS_Surjection
  <1>7. \A r \in rules : r.priority \in Nat /\ r.allow \in BOOLEAN
    <2> SUFFICES ASSUME NEW f \in F
                 PROVE  OwnerRule(owner[f], f).priority \in Nat /\ OwnerRule(owner[f], f).allow \in BOOLEAN
      BY <1>3
    <2>1. OwnerRule(owner[f], f).priority = TopPriority /\ OwnerRule(owner[f], f).allow = TRUE
      BY DEF OwnerRule
    <2>2. QED
      BY <2>1, AccessAssumption
  <1>8. QED
    BY <1>6, <1>7 DEF RulesFit

\* A file is granted only if the rules gave it at some moment since the request
\* began to ask, and refused only if they refused it at some moment, for one
\* file or each of a listing, whatever rules come between the reads; but for
\* the race of the first rule of all with the count.
THEOREM AnswersAlwaysFit == Spec => []AnswersFit
  <1>1. Init => RulesFit /\ Fair
    <2> SUFFICES ASSUME Init PROVE Fair
      BY RulesFitAtFirst
    <2>1. \A p \in Requests : req[p].op \notin Checks
      BY OpsApart DEF Init, SharesInit, Idle, Checks
    <2>2. QED
      BY <2>1 DEF Fair
  <1>2. Shape /\ RulesFit /\ Fair /\ [Next]_vars => (RulesFit /\ Fair)'
    <2> SUFFICES ASSUME Shape, RulesFit, Fair, [Next]_vars PROVE Fair'
      BY RulesStayFit
    <2>1. CASE Tick /\ UNCHANGED accessVars
      BY <2>1 DEF Tick, accessVars, Fair
    <2>2. ASSUME NEW p \in Requests, SharesStep(p), UNCHANGED accessVars PROVE Fair'
      BY <2>2, SharesFair
    <2>3. CASE AccessOnly
      BY <2>3, AccessFair
    <2>4. CASE UNCHANGED vars
      BY <2>4 DEF vars, sharesVars, accessVars, Fair
    <2>5. QED
      BY <2>1, <2>2, <2>3, <2>4, WhoSteps
  <1>3. Fair => AnswersFit
    <2> SUFFICES ASSUME Fair, NEW p \in Requests, req[p].op \in Checks, AStep(p) = "reply"
                 PROVE  /\ req[p].yes \subseteq req[p].ever
                        /\ req[p].always \ req[p].raced \subseteq req[p].yes
      BY DEF AnswersFit
    <2>1. FairReq(req[p], rules)
      BY DEF Fair
    <2>2. AskStep(req[p]) = "reply"
      BY OpsApart DEF AStep, AskStep, AskOps, Checks
    <2>3. req[p].todo = <<>>
      BY <2>1, <2>2 DEF FairReq
    <2>4. RangeOf(req[p].todo) = {}
      BY <2>3 DEF RangeOf
    <2>5. QED
      BY <2>1, <2>4 DEF FairReq
  <1>4. QED
    BY <1>1, <1>2, <1>3, BaseHolds, PTL DEF Spec, Base
=============================================================================
