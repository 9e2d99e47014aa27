------------------------------- MODULE Shares -------------------------------
(***************************************************************************)
(* Saved filters and share tokens: create_filter, update_filter,           *)
(* delete_filter, issue_filter_share, revoke_share_token and the shared    *)
(* listing of yozist-api lib.rs over the filters and share_tokens tables   *)
(* (yozist-db sqlite.rs, yozist-auth sqlite.rs).  A request is a sequence  *)
(* of database calls (Steps); others come between them.                    *)
(*                                                                         *)
(* Time is counted in half days: tokens end by the clock, while the list   *)
(* of filters compares the text of two dates (Lists).  Names that differ   *)
(* in the case of letters are different here as they are in the tables.    *)
(* Left out: the check of a name's characters, descriptions, the signature *)
(* of a token (its claims are what its row was made of).                   *)
(***************************************************************************)
EXTENDS Naturals, Sequences, FiniteSets

CONSTANTS
  Requests,
  Users,
  FilterIds, Names,
  Definitions, \* what a filter may ask for
  Tokens,
  Lifetimes,   \* how long filters and tokens are asked to live
  MaxRequests, \* bound on the requests ever started
  MaxTime,     \* bound on the clock
  None

ASSUME SharesAssumption ==
  /\ MaxRequests \in Nat /\ MaxTime \in Nat /\ Lifetimes \subseteq Nat
  /\ None \notin Users \cup Names /\ None \notin Definitions

VARIABLES
  filter,  \* filters: id -> row or None
  token,   \* share_tokens: id -> row or None
  now,
  req,     \* the request each process works on
  started,
  word,    \* history: what the last undisturbed request left of each filter
  revoked  \* history: how many revocations of each token were reported done

sharesVars == <<filter, token, now, req, started, word, revoked>>

-----------------------------------------------------------------------------
CreateSteps == <<"taken", "insert">>
UpdateSteps == <<"read", "clash", "write">>
DeleteSteps == <<"read", "delete">>
IssueSteps == <<"issue">>
RevokeSteps == <<"own", "revoke">>
UseSteps == <<"verify", "target", "reply">>
Steps == [create |-> CreateSteps, update |-> UpdateSteps, delete |-> DeleteSteps,
          issue |-> IssueSteps, revoke |-> RevokeSteps, use |-> UseSteps]
Writes == {"update", "delete"}
ASSUME NoneAssumption == \A op \in DOMAIN Steps : op # None /\ \A i \in DOMAIN Steps[op] : Steps[op][i] # None

FilterRow == [name : Names, def : Definitions, owner : Users, until : Nat \cup {None}]
Kinds == {"file", "filter"}

Idle == [op |-> None, at |-> 0, who |-> None, id |-> None, name |-> None, def |-> None,
         until |-> None, row |-> None, want |-> None, alone |-> TRUE, late |-> FALSE]
OwnOps == DOMAIN Steps

SharesTypeOK ==
  /\ filter \in [FilterIds -> FilterRow \cup {None}]
  /\ now \in 0..MaxTime /\ started \in 0..MaxRequests
  /\ \A p \in Requests : req[p].op \in OwnOps => req[p].at \in DOMAIN Steps[req[p].op]
  /\ word \in [FilterIds -> [is : {"new", "kept", "gone", "any"}, row : FilterRow \cup {None}]]
  /\ revoked \in [Tokens -> Nat]

SharesInit ==
  /\ filter = [q \in FilterIds |-> None]
  /\ token = [t \in Tokens |-> None]
  /\ now = 0 /\ started = 0
  /\ req = [p \in Requests |-> Idle]
  /\ word = [q \in FilterIds |-> [is |-> "new", row |-> None]]
  /\ revoked = [t \in Tokens |-> 0]

-----------------------------------------------------------------------------
Exists(q) == filter[q] # None
Named(n) == {q \in FilterIds : Exists(q) /\ filter[q].name = n}
Made(q) == word[q].is # "new"
Free == {q \in FilterIds : ~Made(q)}   \* ids are never used again

Step(p) == IF req[p].op \in OwnOps THEN Steps[req[p].op][req[p].at] ELSE None
Stop(p) == req' = [req EXCEPT ![p] = Idle]
Goes(p, c) == req' = [req EXCEPT ![p] = [c EXCEPT !.at = @ + 1]]

(* Two requests that write the same filter at once disturb one another.    *)
Meets(p, q) == {r \in Requests \ {p} : req[r].op \in Writes /\ req[r].id = q}

Arrives(p, c) ==
  /\ req[p] = Idle /\ started < MaxRequests
  /\ started' = started + 1
  /\ req' = [r \in Requests |-> IF r = p THEN [c EXCEPT !.alone = (c.op \notin Writes) \/ Meets(p, c.id) = {}]
                                ELSE IF c.op \in Writes /\ r \in Meets(p, c.id) THEN [req[r] EXCEPT !.alone = FALSE]
                                ELSE req[r]]
  /\ UNCHANGED <<filter, token, now, word, revoked>>

Ask(op, u) == [Idle EXCEPT !.op = op, !.at = 1, !.who = u]
Untils == {now + d : d \in Lifetimes}

ArriveCreate(p) == \E u \in Users, n \in Names, d \in Definitions, e \in Untils \cup {None} :
  Arrives(p, [Ask("create", u) EXCEPT !.name = n, !.def = d, !.until = e])
ArriveUpdate(p) == \E u \in Users, q \in FilterIds, n \in Names \cup {None}, d \in Definitions \cup {None} :
  /\ Made(q) /\ <<n, d>> # <<None, None>>
  /\ Arrives(p, [Ask("update", u) EXCEPT !.id = q, !.name = n, !.def = d])
ArriveDelete(p) == \E u \in Users, q \in FilterIds :
  /\ Made(q)
  /\ Arrives(p, [Ask("delete", u) EXCEPT !.id = q])
ArriveIssue(p) == \E u \in Users, q \in FilterIds, e \in Untils :
  /\ Made(q)
  /\ Arrives(p, [Ask("issue", u) EXCEPT !.id = q, !.until = e])
ArriveRevoke(p) == \E u \in Users, t \in Tokens :
  /\ token[t] # None
  /\ Arrives(p, [Ask("revoke", u) EXCEPT !.id = t])
Ended(t) == token[t].revoked \/ token[t].until < now
ArriveUse(p) == \E t \in Tokens, k \in Kinds :
  /\ token[t] # None
  /\ Arrives(p, [Ask("use", None) EXCEPT !.id = t, !.want = k, !.late = Ended(t)])

-----------------------------------------------------------------------------
(* create_filter: the name is looked up, then the row inserted; the unique *)
(* index refuses a name that came in between.                              *)
Taken(p) ==
  /\ Step(p) = "taken"
  /\ IF Named(req[p].name) # {} THEN Stop(p) ELSE Goes(p, req[p])
  /\ UNCHANGED <<filter, token, now, started, word, revoked>>

NameFree(n, q) == Named(n) \subseteq {q}

Insert(p) ==
  LET c == req[p]  q == CHOOSE x \in Free : TRUE
      row == [name |-> c.name, def |-> c.def, owner |-> c.who, until |-> c.until]
  IN /\ Step(p) = "insert" /\ Free # {}
     /\ IF NameFree(c.name, q)
        THEN filter' = [filter EXCEPT ![q] = row] /\ word' = [word EXCEPT ![q] = [is |-> "kept", row |-> row]]
        ELSE UNCHANGED <<filter, word>>
     /\ Stop(p)
     /\ UNCHANGED <<token, now, started, revoked>>

(* update_filter and delete_filter: the row is read, and is the caller's.  *)
Read(p) ==
  LET c == req[p] IN
  /\ Step(p) = "read"
  /\ IF Exists(c.id) /\ filter[c.id].owner = c.who
     THEN Goes(p, [c EXCEPT !.row = filter[c.id]])
     ELSE Stop(p)
  /\ UNCHANGED <<filter, token, now, started, word, revoked>>

Clash(p) ==
  LET c == req[p] IN
  /\ Step(p) = "clash"
  /\ IF c.name \notin {None, c.row.name} /\ Named(c.name) \ {c.id} # {} THEN Stop(p) ELSE Goes(p, c)
  /\ UNCHANGED <<filter, token, now, started, word, revoked>>

Or(new, old) == IF new = None THEN old ELSE new
MergedNameOnly(c) == [c.row EXCEPT !.name = Or(c.name, @)]
Changed(c, r) == [r EXCEPT !.name = Or(c.name, @), !.def = Or(c.def, @)]
Merged(c) == Changed(c, c.row)
Said(c, w) ==
  IF ~c.alone THEN [w EXCEPT !.is = "any"]
  ELSE IF w.is = "any" \/ ~NameFree(Or(c.name, w.row.name), c.id) THEN w
  ELSE [w EXCEPT !.row = Changed(c, @)]

(* The whole row as merged with the one read before: what others wrote in  *)
(* between is undone, and a filter deleted in between is there again.      *)
Write(p) ==
  LET c == req[p] IN
  /\ Step(p) = "write"
  /\ IF NameFree(Merged(c).name, c.id)
     THEN filter' = [filter EXCEPT ![c.id] = Merged(c)]
     ELSE UNCHANGED filter
  /\ word' = [word EXCEPT ![c.id] = Said(c, @)]
  /\ Stop(p)
  /\ UNCHANGED <<token, now, started, revoked>>

Delete(p) ==
  LET c == req[p] IN
  /\ Step(p) = "delete"
  /\ filter' = [filter EXCEPT ![c.id] = None]
  /\ word' = [word EXCEPT ![c.id].is = IF c.alone THEN "gone" ELSE "any"]
  /\ Stop(p)
  /\ UNCHANGED <<token, now, started, revoked>>
-----------------------------------------------------------------------------
(* Tokens.                                                                 *)
Blank == {t \in Tokens : token[t] = None}
NewToken(kind, target, u, until) ==
  LET t == CHOOSE x \in Blank : TRUE
  IN token' = [token EXCEPT ![t] = [kind |-> kind, target |-> target, issuer |-> u, until |-> until, revoked |-> FALSE]]

Issue(p) ==
  LET c == req[p] IN
  /\ Step(p) = "issue" /\ Blank # {}
  /\ NewToken("filter", c.id, c.who, c.until)
  /\ Stop(p)
  /\ UNCHANGED <<filter, now, started, word, revoked>>

(* revoke_share_token: the caller's tokens are listed, ended ones too; the *)
(* update touches the row only while it is not revoked.                    *)
Own(p) ==
  /\ Step(p) = "own"
  /\ IF token[req[p].id].issuer = req[p].who THEN Goes(p, req[p]) ELSE Stop(p)
  /\ UNCHANGED <<filter, token, now, started, word, revoked>>

StillValid(t) == ~token[t].revoked

Revoke(p) ==
  LET t == req[p].id IN
  /\ Step(p) = "revoke"
  /\ IF StillValid(t)
     THEN token' = [token EXCEPT ![t].revoked = TRUE] /\ revoked' = [revoked EXCEPT ![t] = @ + 1]
     ELSE UNCHANGED <<token, revoked>>
  /\ Stop(p)
  /\ UNCHANGED <<filter, now, started, word>>

(* verify_share_token and verify_share: the signed end of the token, its   *)
(* row, the kind the route is for.                                         *)
VerifiesWithLeeway(t, k) == token[t].until + 1 >= now /\ ~token[t].revoked /\ token[t].kind = k
Verifies(t, k) == token[t].until >= now /\ ~token[t].revoked /\ token[t].kind = k

Verify(p) ==
  /\ Step(p) = "verify"
  /\ IF Verifies(req[p].id, req[p].want) THEN Goes(p, req[p]) ELSE Stop(p)
  /\ UNCHANGED <<filter, token, now, started, word, revoked>>

Target(p) ==
  LET t == token[req[p].id] IN
  /\ Step(p) = "target"
  /\ IF t.kind = "filter" /\ ~Exists(t.target) THEN Stop(p) ELSE Goes(p, req[p])
  /\ UNCHANGED <<filter, token, now, started, word, revoked>>

Reply(p) == Step(p) = "reply" /\ Stop(p) /\ UNCHANGED <<filter, token, now, started, word, revoked>>

Tick == now < MaxTime /\ now' = now + 1 /\ UNCHANGED <<filter, token, req, started, word, revoked>>

SharesStep(p) ==
  \/ ArriveCreate(p) \/ ArriveUpdate(p) \/ ArriveDelete(p) \/ ArriveIssue(p) \/ ArriveRevoke(p) \/ ArriveUse(p)
  \/ Taken(p) \/ Insert(p) \/ Read(p) \/ Clash(p) \/ Write(p) \/ Delete(p)
  \/ Issue(p) \/ Own(p) \/ Revoke(p) \/ Verify(p) \/ Target(p) \/ Reply(p)

-----------------------------------------------------------------------------
(* list_filters compares expires_at, a date and a time joined by T, with   *)
(* the date and the time of now joined by a space, as text: on the last    *)
(* day of a filter the T decides, and it is listed to the end of that day. *)
Day(t) == t \div 2
LaterText(e, t) == Day(e) >= Day(t)
Lists(u) == {q \in FilterIds : /\ Exists(q) /\ filter[q].owner = u
                               /\ (filter[q].until = None) \/ LaterText(filter[q].until, now)}

(* Two filters never share a name, whoever makes or renames them at once:  *)
(* the lookup before the write does not see the other one, the index does. *)
(* A directory of the SMB view is found by the name alone.                 *)
NamesUnique == \A n \in Names : Cardinality(Named(n)) <= 1

(* A filter is what the last request that no other one overlapped made of  *)
(* it, field by field, and a deleted one is gone: an update writes back    *)
(* the fields it was not asked to change as it read them.                  *)
LastWordKept == \A q \in FilterIds :
  /\ word[q].is = "kept" => filter[q] = word[q].row
  /\ word[q].is \in {"new", "gone"} => ~Exists(q)

(* A token is revoked once, whoever tries at the same time, and a request  *)
(* that comes after its revocation or its end is not served by it.         *)
TokenEnds ==
  /\ \A t \in Tokens : token[t] # None => revoked[t] = (IF token[t].revoked THEN 1 ELSE 0)
  /\ \A p \in Requests : Step(p) \in {"target", "reply"} => ~req[p].late

(* A filter whose time is not over is on its owner's list, in spite of the *)
(* comparison by text.                                                     *)
UnexpiredListed == \A q \in FilterIds :
  (Exists(q) /\ (filter[q].until = None \/ filter[q].until > now)) => q \in Lists(filter[q].owner)

(* Filters keep their names apart, the last word on each, and their place  *)
(* on the list until their time is over.                                   *)
FiltersKept == NamesUnique /\ LastWordKept /\ UnexpiredListed
=============================================================================
