------------------------------ MODULE Network -------------------------------
(***************************************************************************)
(* A point of sale and a member of its staff: edits, status and closures of   *)
(* the site, the member's row, account and roles.  A write is one transaction *)
(* decided on what was read; a statement of it that loses its guard changes   *)
(* nothing while the others of the transaction do.                            *)
(***************************************************************************)
EXTENDS Integers, FiniteSets

CONSTANTS
  MaxRequests, MaxOpen, \* requests in a behaviour, under way at a time
  Roles,  \* staffRoles
  MaxSites, \* bound: numbers tried for a code, 99 in the code
  None

(* Bounds: MaxRequests, MaxOpen.  A stamp is the request that wrote it. *)
Requests == 1..MaxRequests
Stamps == Requests \cup {None}

VARIABLES
  site,     \* operation_sites (operation_partners is edited alike)
  closures, \* site_closures
  codes,    \* the number in the code of each site of one name (1: none), by its creator
  member,   \* operation_staff: the row, once invited
  user,     \* users: the status of the member's account
  grants,   \* user_role_assignments of that account: the active ones
  request   \* what each request has read
vars == <<site, closures, codes, member, user, grants, request>>

SiteStatuses == {"open", "temporarily_closed", "closed"}
Site == [status : SiteStatuses, accepts : BOOLEAN, stamp : Stamps]
Member == [role : Roles, offline : BOOLEAN, stamp : Stamps]
Grant == [role : Roles, by : Requests]

Idle == [at |-> "idle"]
Done == [at |-> "done"]
Pending ==
  {Idle, Done} \cup
  [at : {"edit"}, accepts : BOOLEAN, named : BOOLEAN, stamp : Stamps] \cup
  [at : {"status"}, status : SiteStatuses, stamp : Stamps] \cup
  [at : {"create"}, number : 1..MaxSites] \cup [at : {"invite"}, role : Roles] \cup
  [at : {"member"}, role : Roles, stamp : Stamps] \cup
  [at : {"leave"}, stamp : Stamps]

Init ==
  /\ site = [status |-> "open", accepts |-> TRUE, stamp |-> None]
  /\ closures = {} /\ codes = <<>> /\ member = None /\ user = None /\ grants = {}
  /\ request = [c \in Requests |-> Idle]

-----------------------------------------------------------------------------
Then(c, what) == request' = [request EXCEPT ![c] = what]
Begin(c, what) ==
  /\ request[c] = Idle
  /\ \A d \in 1..(c - 1) : request[d] # Idle
  /\ Cardinality({d \in Requests : request[d] \notin {Idle, Done}}) < MaxOpen
  /\ Then(c, what)

(* site.update: what is not given is written back as it was read. *)
EditRead(c) ==
  /\ \E a \in BOOLEAN, named \in BOOLEAN :
       /\ ~named => a = site.accepts
       /\ Begin(c, [at |-> "edit", accepts |-> a, named |-> named, stamp |-> site.stamp])
  /\ UNCHANGED <<site, closures, codes, member, user, grants>>

EditWins_Always(c) == TRUE
EditWins(c) == site.stamp = request[c].stamp

Edit(c) ==
  /\ request[c].at = "edit"
  /\ site' = IF EditWins(c) THEN [site EXCEPT !.accepts = request[c].accepts, !.stamp = c] ELSE site
  /\ Then(c, Done)
  /\ UNCHANGED <<closures, codes, member, user, grants>>

(* site.set-status: an open site takes orders, no other does. *)
StatusRead(c) ==
  /\ \E s \in SiteStatuses \ {site.status} :
       Begin(c, [at |-> "status", status |-> s, stamp |-> site.stamp])
  /\ UNCHANGED <<site, closures, codes, member, user, grants>>

SetStatus(c) ==
  LET w == request[c] IN
  /\ w.at = "status"
  /\ site' = IF EditWins(c) THEN [status |-> w.status, accepts |-> w.status = "open", stamp |-> c]
             ELSE site
  /\ Then(c, Done)
  /\ UNCHANGED <<closures, codes, member, user, grants>>

(* order.create writes active_orders and the stamp of the site with it. *)
CountOrder(c) ==
  /\ site.accepts /\ site' = [site EXCEPT !.stamp = c] /\ Begin(c, Done)
  /\ UNCHANGED <<closures, codes, member, user, grants>>

AddClosure(c) ==
  /\ closures' = closures \cup {c} /\ Begin(c, Done)
  /\ UNCHANGED <<site, codes, member, user, grants>>

(* uniqueCode: the first number nobody has. *)
Taken == {codes[d] : d \in DOMAIN codes}
Unused == {n \in 1..MaxSites : n \notin Taken /\ \A m \in 1..(n - 1) : m \in Taken}

(* site.create, of a name that may be given already (partner.create alike). *)
CreateRead(c) ==
  /\ \E n \in Unused : Begin(c, [at |-> "create", number |-> n])
  /\ UNCHANGED <<site, closures, codes, member, user, grants>>

CodeFree_Anyway(c) == TRUE
CodeFree(c) == request[c].number \notin Taken

(* operation_sites_code_unique_idx fails the transaction of the second. *)
Create(c) ==
  /\ request[c].at = "create"
  /\ codes' = IF CodeFree(c) THEN [d \in DOMAIN codes \cup {c} |-> IF d = c THEN request[c].number ELSE codes[d]]
              ELSE codes
  /\ Then(c, Done)
  /\ UNCHANGED <<site, closures, member, user, grants>>

(* staff.invite: the index on the phone lets one account of it in. *)
InviteRead(c) ==
  /\ user = None
  /\ \E r \in Roles : Begin(c, [at |-> "invite", role |-> r])
  /\ UNCHANGED <<site, closures, codes, member, user, grants>>

Invite(c) ==
  LET r == request[c].role IN
  /\ request[c].at = "invite"
  /\ IF user = None
       THEN /\ user' = "active" /\ grants' = {[role |-> r, by |-> c]}
            /\ member' = [role |-> r, offline |-> TRUE, stamp |-> c]
       ELSE UNCHANGED <<member, user, grants>>
  /\ Then(c, Done)
  /\ UNCHANGED <<site, closures, codes>>

(* staff.update: only the first statement asks for the stamp it read. *)
MemberRead(c) ==
  /\ member # None
  /\ \E r \in Roles : Begin(c, [at |-> "member", role |-> r, stamp |-> member.stamp])
  /\ UNCHANGED <<site, closures, codes, member, user, grants>>

Current(c) == member.stamp = request[c].stamp

Granted_Anyway(c, r) == {g \in grants : g.role = r} \cup {[role |-> r, by |-> c]}
Granted(c, r) ==
  LET kept == {g \in grants : g.role = r} IN
  IF kept = {} THEN {[role |-> r, by |-> c]} ELSE kept

UpdateMember(c) ==
  LET r == request[c].role IN
  /\ request[c].at = "member"
  /\ member' = IF Current(c) THEN [member EXCEPT !.role = r, !.stamp = c] ELSE member
  /\ grants' = Granted(c, r)
  /\ Then(c, Done)
  /\ UNCHANGED <<site, closures, codes, user>>

(* staff.deactivate *)
LeaveRead(c) ==
  /\ member # None /\ Begin(c, [at |-> "leave", stamp |-> member.stamp])
  /\ UNCHANGED <<site, closures, codes, member, user, grants>>

Leave(c) ==
  /\ request[c].at = "leave"
  /\ member' = IF Current(c) THEN [member EXCEPT !.offline = TRUE, !.stamp = c] ELSE member
  /\ user' = "suspended" /\ grants' = {}
  /\ Then(c, Done)
  /\ UNCHANGED <<site, closures, codes>>

Next ==
  \E c \in Requests :
    \/ EditRead(c) \/ Edit(c) \/ StatusRead(c) \/ SetStatus(c) \/ CountOrder(c) \/ AddClosure(c)
    \/ CreateRead(c) \/ Create(c)
    \/ InviteRead(c) \/ Invite(c) \/ MemberRead(c) \/ UpdateMember(c) \/ LeaveRead(c) \/ Leave(c)

Spec == Init /\ [][Next]_vars

-----------------------------------------------------------------------------
TypeOK ==
  /\ site \in Site /\ closures \subseteq Requests
  /\ DOMAIN codes \subseteq Requests /\ \A d \in DOMAIN codes : codes[d] \in 1..MaxSites
  /\ member \in Member \cup {None} /\ user \in {None, "active", "suspended"}
  /\ grants \subseteq Grant
  /\ request \in [Requests -> Pending]

(* A site somebody closed or paused does not take orders again because of an  *)
(* edit that was read before and says nothing of it.                          *)
EditsKeepStatus ==
  \A c \in Requests :
    request[c].at = "edit" /\ request'[c] = Done /\ ~request[c].named
      => site'.accepts = site.accepts

(* Two sites never share a code, and their numbers leave no gap, although the  *)
(* number is looked up before the site is there.                              *)
CodesApart ==
  /\ \A c, d \in DOMAIN codes : codes[c] = codes[d] => c = d
  /\ Taken = 1..Cardinality(DOMAIN codes)

(* Edits of one member that overlap leave his account with one role at most.  *)
OneRole == Cardinality(grants) <= 1

=============================================================================
