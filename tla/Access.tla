------------------------------- MODULE Access -------------------------------
(***************************************************************************)
(* Who may do what: the rules of acl_rules and the decision on them        *)
(* (yozist-auth authorizer.rs, check), the handlers of yozist-api lib.rs   *)
(* that change rules and groups or ask for a decision, and the files a     *)
(* filter shows (yozist-db resolver.rs), beside the requests of Shares on  *)
(* the same filters and tokens.  A decision is one read of the rules and,  *)
(* when none matches, a count of all of them; a listing is one decision    *)
(* for each file; other requests come between the reads.                   *)
(*                                                                         *)
(* What a condition of a filter looks at (tags by kind, series, type,      *)
(* name, dates of a file) is the constant Facts.  Rules are a set: a       *)
(* second copy of one decides nothing; no handler deletes rules.  Left     *)
(* out: System, which no handler acts as, and the accounts themselves.     *)
(***************************************************************************)
EXTENDS Shares

CONSTANTS
  Groups, Anonymous,
  Files, FirstFiles,  \* the files to be, and those there to begin with, newest first
  Needs,              \* what callers need of a file they open
  Offers,             \* the masks, effects and priorities clients put into rules
  TopPriority,        \* i32::MAX, the priority of an owner's rule
  Facts,              \* triples of file, field and value that hold
  QueryLimit          \* QUERY_FILE_LIMIT

ASSUME AccessAssumption ==
  /\ TopPriority \in Nat
  /\ Offers \subseteq [mask : SUBSET {"VIEW", "READ", "WRITE", "ADMIN"}, allow : BOOLEAN, priority : 0..TopPriority]
  /\ Anonymous \notin Users /\ QueryLimit \in Nat \ {0}
  /\ FirstFiles \in Seq(Files)

VARIABLES
  rules,   \* acl_rules
  members, \* group -> users
  files    \* rows of files, newest first

accessVars == <<rules, members, files>>
vars == <<sharesVars, accessVars>>

-----------------------------------------------------------------------------
Permissions == {"VIEW", "READ", "WRITE", "ADMIN"}
Public == {"VIEW", "READ"}   \* what an anonymous caller has
Rules == [subject : Users \cup Groups, file : Files, mask : SUBSET Permissions, allow : BOOLEAN,
          priority : 0..TopPriority]
OwnerRule(u, f) ==
  [subject |-> u, file |-> f, mask |-> Permissions, allow |-> TRUE, priority |-> TopPriority]
GroupsOf(u) == {g \in Groups : u \in members[g]}

OpenSteps == <<"rules", "reply">>
UploadSteps == <<"file", "rule", "reply">>
ListSteps == <<"resolve", "rules", "reply">>
AdminSteps == <<"rules", "issue", "reply">>
AccessSteps == [open |-> OpenSteps, upload |-> UploadSteps, list |-> ListSteps, admin |-> AdminSteps]
Checks == {"open", "list", "admin"}
TokenRow == [kind : Kinds, target : FilterIds \cup Files, issuer : Users, until : Nat, revoked : BOOLEAN]
ASSUME NoneAskedAssumption ==
  /\ \A op \in DOMAIN AccessSteps : op # None /\ \A i \in DOMAIN AccessSteps[op] : AccessSteps[op][i] # None
  /\ None \notin TokenRow /\ None \notin Requests

(* A request that asks for decisions: on the files of todo in turn, yes    *)
(* holds those granted, counting says that no rule matched.  History: the  *)
(* files it might have at some moment since it began to ask, those it      *)
(* might have at every moment, and those the first rule of all came for    *)
(* between the read of the rules and the count.                            *)
Asking(op, who) == [op |-> op, at |-> 1, who |-> who, groups |-> IF who = Anonymous THEN {} ELSE GroupsOf(who),
                    id |-> None, need |-> None, until |-> None, todo |-> <<>>, yes |-> {}, counting |-> FALSE,
                    ever |-> {}, always |-> {}, raced |-> {}]
AStep(p) == IF req[p].op \in DOMAIN AccessSteps THEN AccessSteps[req[p].op][req[p].at] ELSE None

TypeOK ==
  /\ SharesTypeOK /\ token \in [Tokens -> TokenRow \cup {None}]
  /\ rules \subseteq Rules
  /\ members \in [Groups -> SUBSET Users]
  /\ files \in Seq(Files) /\ \A i, j \in DOMAIN files : files[i] = files[j] => i = j
  /\ \A p \in Requests : req[p].op \in DOMAIN AccessSteps =>
       /\ req[p].at \in DOMAIN AccessSteps[req[p].op] /\ req[p].yes \subseteq Files
       /\ req[p].who \in Users \cup {Anonymous} /\ req[p].always \subseteq req[p].ever

Init ==
  /\ SharesInit
  /\ files = FirstFiles
  /\ \E owner \in [{FirstFiles[i] : i \in DOMAIN FirstFiles} -> Users \cup {None}] :
       rules = {OwnerRule(owner[f], f) : f \in {g \in DOMAIN owner : owner[g] # None}}
  /\ members = [g \in Groups |-> {}]

-----------------------------------------------------------------------------
(* The decision.                                                           *)

Matching(R, c, f) == {r \in R : r.file = f /\ r.subject \in {c.who} \cup c.groups}

(* ORDER BY priority DESC, effect ASC: "allow" sorts before "deny".        *)
AheadDeny(r, s) == (r.priority > s.priority) \/ (r.priority = s.priority /\ (~r.allow \/ s.allow))
Ahead(r, s) == (r.priority > s.priority) \/ (r.priority = s.priority /\ (r.allow \/ ~s.allow))

(* The first rule that has all of what is needed decides.                  *)
CoversNone(r, need) == TRUE
Covers(r, need) == need \in r.mask
Fitting(R, need) == {r \in R : Covers(r, need)}
Decide(R, need) ==
  /\ Fitting(R, need) # {}
  /\ (CHOOSE r \in Fitting(R, need) : \A s \in Fitting(R, need) : Ahead(r, s)).allow

(* What the answer means, said without the order of the rows.              *)
May(R, c, f) ==
  IF c.who = Anonymous THEN c.need \in Public
  ELSE \/ R = {}
       \/ \E r \in Matching(R, c, f) :
            /\ c.need \in r.mask /\ r.allow
            /\ \A s \in Matching(R, c, f) : (c.need \in s.mask /\ ~s.allow) => s.priority <= r.priority

-----------------------------------------------------------------------------
(* The files of a filter.                                                  *)

SetFields == {"tag", "manual_tag", "system_tag", "ai_tag", "series", "mime"}
DateFields == {"created", "updated"}
Negating == {"exclude", "not_contains", "is_not", "before"}
Holds(f, c) == <<f, c.field, c.value>> \in Facts

(* No value: a set holds nothing of that name, a text or a date is left    *)
(* out of account, as is a field nobody knows.                             *)
Meets1(f, c) ==
  \/ c.field \in SetFields /\ ((c.value # None /\ Holds(f, c)) # (c.op \in Negating))
  \/ c.field \in DateFields \cup {"name"} /\ (c.value = None \/ Holds(f, c) # (c.op \in Negating))
  \/ c.field \notin SetFields \cup DateFields \cup {"name"}

Eval(f, d) ==
  \/ d.conditions = {}
  \/ d.all /\ \A c \in d.conditions : Meets1(f, c)
  \/ ~d.all /\ \E c \in d.conditions : Meets1(f, c)

(* resolve_filter: the newest QueryLimit files, each put to the test.      *)
Candidates == SubSeq(files, 1, IF Len(files) < QueryLimit THEN Len(files) ELSE QueryLimit)
Resolve(d) ==
  LET Kept[n \in 0..Len(Candidates)] ==
        IF n = 0 THEN <<>> ELSE IF Eval(Candidates[n], d) THEN Append(Kept[n - 1], Candidates[n]) ELSE Kept[n - 1]
  IN Kept[Len(Candidates)]

-----------------------------------------------------------------------------
(* Every change of the rules is seen by those who ask.                     *)
Watched(c, R) ==
  IF c.op \notin Checks THEN c
  ELSE LET F == {c.todo[i] : i \in DOMAIN c.todo}
       IN [c EXCEPT !.ever = @ \cup {f \in F : May(R, c, f)},
                    !.always = {f \in @ : f \in F => May(R, c, f)},
                    !.raced = IF c.counting /\ rules = {} THEN @ \cup {Head(c.todo)} ELSE @]
Adds(p, r, c) ==
  /\ rules' = rules \cup {r}
  /\ req' = [q \in Requests |-> IF q = p THEN c ELSE Watched(req[q], rules \cup {r})]

Begin(c, todo) ==
  LET F == {f \in {todo[i] : i \in DOMAIN todo} : May(rules, c, f)}
  IN [c EXCEPT !.at = IF todo = <<>> THEN @ + 1 ELSE @, !.todo = todo, !.ever = F, !.always = F]
There == {files[i] : i \in DOMAIN files}
Callers == Users \cup {Anonymous}

Arrive(p, c) ==
  /\ req[p] = Idle /\ started < MaxRequests
  /\ started' = started + 1
  /\ req' = [req EXCEPT ![p] = c]
  /\ UNCHANGED <<filter, token, now, word, revoked, accessVars>>

ArriveOpen(p) == \E u \in Callers, f \in There, n \in Needs :
  Arrive(p, Begin([Asking("open", u) EXCEPT !.need = n], <<f>>))
ArriveUpload(p) == \E u \in Users : Arrive(p, Asking("upload", u))
ArriveList(p) == \E u \in Callers, q \in FilterIds :
  Made(q) /\ Arrive(p, [Asking("list", u) EXCEPT !.id = q, !.need = "VIEW"])
ArriveAdmin(p) == \E u \in Callers, f \in There, e \in Untils :
  Arrive(p, Begin([Asking("admin", u) EXCEPT !.need = "ADMIN", !.id = f, !.until = e], <<f>>))

(* add_acl_rule, from any caller who is signed in.                         *)
AddRule == \E u \in Users \cup Groups, f \in There, o \in Offers :
  LET r == [subject |-> u, file |-> f, mask |-> o.mask, allow |-> o.allow, priority |-> o.priority]
  IN /\ started < MaxRequests /\ started' = started + 1
     /\ Adds(None, r, Idle)
     /\ UNCHANGED <<filter, token, now, word, revoked, members, files>>

(* add_group_member and remove_group_member.  Who is asking already keeps  *)
(* the groups it came with.                                                *)
ChangeGroup == \E g \in Groups, u \in Users :
  /\ started < MaxRequests /\ started' = started + 1
  /\ members' = [members EXCEPT ![g] = IF u \in @ THEN @ \ {u} ELSE @ \cup {u}]
  /\ UNCHANGED <<filter, token, now, word, revoked, req, rules, files>>

-----------------------------------------------------------------------------
(* check, one read at a time.                                              *)
Answer(p, granted) ==
  LET c == req[p]
      d == [c EXCEPT !.yes = IF granted THEN @ \cup {Head(c.todo)} ELSE @,
                     !.todo = Tail(@), !.counting = FALSE]
  IN req' = [req EXCEPT ![p] =
       IF d.todo # <<>> THEN d
       ELSE [d EXCEPT !.at = IF c.op = "admin" /\ ~granted THEN @ + 2 ELSE @ + 1]]

MatchRules(p) ==
  LET c == req[p]  R == Matching(rules, c, Head(c.todo))
  IN /\ AStep(p) = "rules" /\ ~c.counting
     /\ IF c.who = Anonymous THEN Answer(p, c.need \in Public)
        ELSE IF R = {} THEN req' = [req EXCEPT ![p].counting = TRUE]
        ELSE Answer(p, Decide(R, c.need))
     /\ UNCHANGED <<filter, token, now, started, word, revoked, accessVars>>

CountRules(p) ==
  /\ AStep(p) = "rules" /\ req[p].counting
  /\ Answer(p, rules = {})
  /\ UNCHANGED <<filter, token, now, started, word, revoked, accessVars>>

(* filter_files: the filter, then its files, then a decision on each.      *)
ResolveFilter(p) ==
  LET c == req[p] IN
  /\ AStep(p) = "resolve"
  /\ req' = [req EXCEPT ![p] = IF ~Exists(c.id) THEN Idle
       ELSE Begin([c EXCEPT !.at = 2], Resolve(filter[c.id].def))]
  /\ UNCHANGED <<filter, token, now, started, word, revoked, accessVars>>

(* create_file: the row of the file, then the rule of its owner.           *)
CreateFile(p) ==
  /\ AStep(p) = "file"
  /\ \E f \in Files \ There :
       /\ files' = <<f>> \o files
       /\ req' = [req EXCEPT ![p].at = 2, ![p].id = f]
  /\ UNCHANGED <<filter, token, now, started, word, revoked, rules, members>>

OwnFile(p) ==
  /\ AStep(p) = "rule"
  /\ Adds(p, OwnerRule(req[p].who, req[p].id), [req[p] EXCEPT !.at = 3])
  /\ UNCHANGED <<filter, token, now, started, word, revoked, members, files>>

(* issue_file_share, once ADMIN is granted.                                *)
IssueFile(p) ==
  LET c == req[p] IN
  /\ AStep(p) = "issue" /\ Blank # {} /\ c.who # Anonymous
  /\ NewToken("file", c.id, c.who, c.until)
  /\ req' = [req EXCEPT ![p].at = 3]
  /\ UNCHANGED <<filter, now, started, word, revoked, accessVars>>

Respond(p) ==
  /\ AStep(p) = "reply"
  /\ Stop(p)
  /\ UNCHANGED <<filter, token, now, started, word, revoked, accessVars>>

AccessStep(p) ==
  \/ ArriveOpen(p) \/ ArriveUpload(p) \/ ArriveList(p) \/ ArriveAdmin(p)
  \/ MatchRules(p) \/ CountRules(p) \/ ResolveFilter(p) \/ CreateFile(p) \/ OwnFile(p) \/ IssueFile(p) \/ Respond(p)
Next ==
  \/ Tick /\ UNCHANGED accessVars
  \/ \E p \in Requests : SharesStep(p) /\ UNCHANGED accessVars
  \/ \E p \in Requests : AccessStep(p)
  \/ AddRule \/ ChangeGroup
Spec == Init /\ [][Next]_vars

-----------------------------------------------------------------------------
(* What is answered is right at some moment of the request: a file is      *)
(* granted only if the rules gave it at some moment since the request      *)
(* began to ask, and refused only if they refused it at some moment, for   *)
(* one file or each of a listing.  But for the first rule of all: when it  *)
(* comes between the read of the rules and the count, the caller is        *)
(* refused by rules that were not there and a default that is over, even   *)
(* if the rule that came allows it.                                        *)
AnswersFit == \A p \in Requests :
  (req[p].op \in Checks /\ AStep(p) = "reply") =>
    /\ req[p].yes \subseteq req[p].ever
    /\ req[p].always \ req[p].raced \subseteq req[p].yes

(* An owner is never shut out of the file by rules that come after, those  *)
(* that deny with the same highest priority included.                      *)
OwnerKeepsAccess == \A u \in Users, f \in Files, n \in Permissions :
  OwnerRule(u, f) \in rules => Decide(Matching(rules, [who |-> u, groups |-> GroupsOf(u)], f), n)
=============================================================================
