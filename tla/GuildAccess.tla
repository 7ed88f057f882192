---------------------------- MODULE GuildAccess ----------------------------
(***************************************************************************)
(* Who may enter a guild: its members, the invitations its owners write,   *)
(* and the logins that take them up (backend/routes/guilds.py,             *)
(* backend/auth_deps.py, backend/oauth.py).                                *)
(*                                                                         *)
(* A request is served in its own task and its own transactions, which     *)
(* READ COMMITTED isolates: what a handler has read may be changed by      *)
(* others before it writes.  Every SELECT after which a handler decides is *)
(* a step of its own; a write and the commit that follows it are one.      *)
(* A client has one request under way at a time.                           *)
(*                                                                         *)
(* Bound: MaxInvites invitation rows.                                      *)
(***************************************************************************)
EXTENDS Naturals, FiniteSets

CONSTANTS
    Users,          \* people, by their numeric GitHub id
    Creator,        \* who created the guild
    Handles,        \* what an owner may type: logins and numeric ids
    Bearer,         \* whose name it is
    Roles,          \* owner and at least one other: member, viewer
    Clients,        \* browsers, each with a request under way or none
    MaxInvites

ASSUME AccessAssumption ==
    /\ Creator \in Users
    /\ "owner" \in Roles /\ "none" \notin Roles
    /\ Bearer \in [Handles -> Users]
    /\ MaxInvites \in Nat

VARIABLES
    member,         \* guild_members: the role of each user's row, "none" without one
    invites,        \* guild_invites
    known,          \* users: who has logged in before
    pc, asked,        \* where a request stands, and what it asks for
    loaded,           \* the row its handler has read, 0 once that row is deleted
    held            \* the invitations a login holds locked, with the roles read

guildRows == <<member, invites, known>>
requestVars == <<pc, asked, loaded, held>>
accessVars == <<member, invites, known, pc, asked, loaded, held>>

InviteIds == 1..MaxInvites
Jobs == [op : {"add", "change"}, on : Users, role : Roles]
        \cup [op : {"remove", "login"}, on : Users]
        \cup [op : {"invite"}, on : Handles, role : Roles]
        \cup [op : {"cancel"}, on : InviteIds]
NoJob == [op |-> "none"]
Nothing == [id |-> 0, role |-> "none"]
NoInvite == [name |-> "none", role |-> "none", status |-> "unwritten"]

Invitations == [name : Handles, role : Roles, status : {"pending", "accepted", "cancelled"}]
Rows == [id : Nat, role : Roles \cup {"none"}]
Holds == [id : InviteIds, role : Roles]

AccessTypeOK ==
    /\ member \in [Users -> Roles \cup {"none"}]
    /\ invites \in [InviteIds -> Invitations \cup {NoInvite}]
    /\ known \subseteq Users
    /\ pc \in [Clients -> {"idle", "allowed", "counting", "writing", "taking"}]
    /\ asked \in [Clients -> Jobs \cup {NoJob}]
    /\ loaded \in [Clients -> Rows]
    /\ held \in [Clients -> SUBSET Holds]

-----------------------------------------------------------------------------
(* The rows.                                                               *)

Owners == {u \in Users : member[u] = "owner"}
PendingUnder(n) == {i \in InviteIds : invites[i].status = "pending" /\ invites[i].name = n}
PendingFor(u) == {i \in InviteIds : invites[i].status = "pending" /\ Bearer[invites[i].name] = u}

\* A mutant: the invitations of a login are read without FOR UPDATE.
LockedByNobody(i) == i \notin InviteIds

\* An UPDATE, and a SELECT FOR UPDATE, wait for the transaction that has
\* locked the row.
Locked(i) == \E q \in Clients : \E h \in held[q] : h.id = i

AccessInit ==
    /\ member = [u \in Users |-> IF u = Creator THEN "owner" ELSE "none"]
    /\ invites = [i \in InviteIds |-> NoInvite]
    /\ known = {Creator}
    /\ pc = [q \in Clients |-> "idle"]
    /\ asked = [q \in Clients |-> NoJob]
    /\ loaded = [q \in Clients |-> Nothing]
    /\ held = [q \in Clients |-> {}]

-----------------------------------------------------------------------------
(* A request: received, and answered.                                      *)

At(q, at, op) == pc[q] = at /\ asked[q].op = op

Goes(q, at) == pc' = [pc EXCEPT ![q] = at]

\* The handler has read the row with this number and this role.
Reads(q, id, role) == loaded' = [loaded EXCEPT ![q] = [id |-> id, role |-> role]]

Answered(q) ==
    /\ Goes(q, "idle")
    /\ asked' = [asked EXCEPT ![q] = NoJob]
    /\ loaded' = [loaded EXCEPT ![q] = Nothing]
    /\ held' = [held EXCEPT ![q] = {}]

Refused(q) == Answered(q) /\ UNCHANGED guildRows

\* require_member("owner") reads the caller's role in a session of its own,
\* before the handler: by then the caller may have lost it.  A login needs
\* no role.
Receive(q) ==
    /\ pc[q] = "idle"
    /\ \E j \in Jobs :
          /\ j.op # "login" => Owners # {}
          /\ asked' = [asked EXCEPT ![q] = j]
    /\ Goes(q, "allowed")
    /\ UNCHANGED <<member, invites, known, loaded, held>>

\* The connection to the database is lost, or the code GitHub was to exchange
\* is refused: nothing is written, and the locks go with the transaction.
Fail(q) == pc[q] # "idle" /\ Refused(q)

-----------------------------------------------------------------------------
(* The members.                                                            *)

\* add_guild_member: an INSERT that turns into an UPDATE of the role.
AddMember(q) ==
    LET u == asked[q].on IN
    /\ At(q, "allowed", "add")
    /\ member' = IF u \in known THEN [member EXCEPT ![u] = asked[q].role] ELSE member
    /\ Answered(q)
    /\ UNCHANGED <<invites, known>>

\* update_guild_member and remove_guild_member read the row and count the
\* owners only when an owner would be lost.
FindMember(q) ==
    LET m == member[asked[q].on]
        loses == m = "owner" /\ (asked[q].op = "remove" \/ asked[q].role # "owner")
    IN
    /\ At(q, "allowed", "change") \/ At(q, "allowed", "remove")
    /\ \/ m = "none" /\ Refused(q)
       \/ /\ m # "none"
          /\ Reads(q, 1, m)
          /\ Goes(q, IF loses THEN "counting" ELSE "writing")
          /\ UNCHANGED <<guildRows, asked, held>>

CountOwners(q) ==
    /\ At(q, "counting", "change") \/ At(q, "counting", "remove")
    /\ \/ Cardinality(Owners) <= 1 /\ Refused(q)
       \/ /\ Cardinality(Owners) > 1
          /\ Goes(q, "writing")
          /\ UNCHANGED <<guildRows, asked, loaded, held>>

\* The UPDATE names the row read: it is left out when the role is the one
\* read, and fails when that row has gone.
WriteRole(q) ==
    /\ At(q, "writing", "change")
    /\ member' = IF loaded[q].id # 0 /\ asked[q].role # loaded[q].role
                 THEN [member EXCEPT ![asked[q].on] = asked[q].role]
                 ELSE member
    /\ Answered(q)
    /\ UNCHANGED <<invites, known>>

\* The DELETE names the user: whichever row is theirs by now goes, and those
\* who have read it hold a row that is no more.
HasRead(p, u) == 
    (At(p, "counting", "change") \/ At(p, "writing", "change")) /\ asked[p].on = u
DeleteMember(q) ==
    LET u == asked[q].on IN
    /\ At(q, "writing", "remove")
    /\ member' = [member EXCEPT ![u] = "none"]
    /\ Goes(q, "idle")
    /\ asked' = [asked EXCEPT ![q] = NoJob]
    /\ loaded' = [p \in Clients |->
          IF p = q THEN Nothing ELSE IF HasRead(p, u) THEN [loaded[p] EXCEPT !.id = 0] ELSE loaded[p]]
    /\ UNCHANGED <<invites, known, held>>

-----------------------------------------------------------------------------
(* The invitations.                                                        *)

\* create_guild_invite: the pending invitation of this name, if there is one;
\* one_or_none() raises when there are several.
FindInvite(q) ==
    LET found == PendingUnder(asked[q].on) IN
    /\ At(q, "allowed", "invite")
    /\ \/ Cardinality(found) > 1 /\ Refused(q)
       \/ /\ Goes(q, "writing")
          /\ \/ found = {} /\ UNCHANGED loaded
             \/ \E i \in found : found = {i} /\ Reads(q, i, invites[i].role)
          /\ UNCHANGED <<guildRows, asked, held>>

\* The row read gets the new role, whatever has become of it.
RenewInvite(q) ==
    LET i == loaded[q].id IN
    /\ At(q, "writing", "invite") /\ i \in InviteIds
    /\ \/ asked[q].role = loaded[q].role /\ UNCHANGED invites
       \/ /\ asked[q].role # loaded[q].role /\ ~Locked(i)
          /\ invites' = [invites EXCEPT ![i].role = asked[q].role]
    /\ Answered(q)
    /\ UNCHANGED <<member, known>>

\* The partial unique index refuses a second pending invitation of the name.
InsertInvite(q) ==
    LET n == asked[q].on
        invite == [name |-> n, role |-> asked[q].role, status |-> "pending"]
    IN
    /\ At(q, "writing", "invite") /\ loaded[q].id = 0
    /\ \/ PendingUnder(n) # {} /\ UNCHANGED invites
       \/ /\ PendingUnder(n) = {}
          /\ \E i \in InviteIds :
                /\ invites[i].status = "unwritten"
                /\ \A k \in 1..(i - 1) : invites[k].status # "unwritten"
                /\ invites' = [invites EXCEPT ![i] = invite]
    /\ Answered(q)
    /\ UNCHANGED <<member, known>>

\* cancel_guild_invite finds the invitation by its number, pending or not ...
FindCancelled(q) ==
    LET i == asked[q].on IN
    /\ At(q, "allowed", "cancel")
    /\ \/ invites[i].status = "unwritten" /\ Refused(q)
       \/ /\ invites[i].status # "unwritten"
          /\ Goes(q, "writing")
          /\ UNCHANGED <<guildRows, asked, loaded, held>>

\* ... and writes over whatever it has become.
CancelInvite(q) ==
    LET i == asked[q].on IN
    /\ At(q, "writing", "cancel") /\ ~Locked(i)
    /\ invites' = [invites EXCEPT ![i].status = "cancelled"]
    /\ Answered(q)
    /\ UNCHANGED <<member, known>>

-----------------------------------------------------------------------------
(* create_session: GitHub has said who logs in; one transaction.           *)

\* SELECT ... FOR UPDATE: it waits for the rows others have locked, and reads
\* them as they are then.
LockInvites(q) ==
    LET mine == PendingFor(asked[q].on) IN
    /\ At(q, "allowed", "login")
    /\ \A i \in mine : ~Locked(i)
    /\ held' = [held EXCEPT ![q] = {[id |-> i, role |-> invites[i].role] : i \in mine}]
    /\ Goes(q, "taking")
    /\ UNCHANGED <<guildRows, asked, loaded>>

\* Each invitation in turn, in no order: the last one's role remains.
CommitLogin(q) ==
    LET u == asked[q].on IN
    /\ At(q, "taking", "login")
    /\ known' = known \cup {u}
    /\ \/ held[q] = {} /\ UNCHANGED member
       \/ \E last \in held[q] : member' = [member EXCEPT ![u] = last.role]
    /\ invites' = [i \in InviteIds |->
          IF \E h \in held[q] : h.id = i
          THEN [invites[i] EXCEPT !.status = "accepted"] ELSE invites[i]]
    /\ Answered(q)

-----------------------------------------------------------------------------
Handle(q) ==
    \/ AddMember(q) \/ FindMember(q) \/ CountOwners(q) \/ WriteRole(q) \/ DeleteMember(q)
    \/ FindInvite(q) \/ RenewInvite(q) \/ InsertInvite(q)
    \/ FindCancelled(q) \/ CancelInvite(q)
    \/ LockInvites(q) \/ CommitLogin(q)

AccessNext == \E q \in Clients : Receive(q) \/ Handle(q) \/ Fail(q)

AccessSpec == AccessInit /\ [][AccessNext]_accessVars

-----------------------------------------------------------------------------
(* Properties.                                                             *)

\* What a login has read of an invitation stays true until it commits: it is
\* still pending, and for the role the login is about to give.  Two logins of
\* one person and an owner who cancels meet here: without the row locks the
\* later login gives back a role that was changed since, or a person enters
\* by an invitation that was cancelled (oauth.py, create_session).
HeldStands ==
    \A q \in Clients : \A h \in held[q] :
        invites[h.id].status = "pending" /\ invites[h.id].role = h.role

\* A name has at most one pending invitation, although two owners may both
\* have found none.  With two, one_or_none() would raise from then on, and
\* nobody could renew the invitation (guilds.py, create_guild_invite).
OneInvitePending ==
    \A i, k \in InviteIds :
        (invites[i].status = "pending" /\ invites[k].status = "pending"
           /\ invites[i].name = invites[k].name) => i = k
=============================================================================
