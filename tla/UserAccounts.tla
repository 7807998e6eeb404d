---------------------------- MODULE UserAccounts ----------------------------
(***************************************************************************)
(* User accounts and the concurrent operations of UserService: each loads  *)
(* a row, decides on what it has loaded, and commits what it has changed.  *)
(* A password stands for its bcrypt hash; no two hashes are equal, so a    *)
(* new password is always written.                                         *)
(***************************************************************************)
EXTENDS FiniteSets

CONSTANTS
    User,       \* the rows of users
    Spelling,   \* the ways an e-mail address is typed
    Normalize,  \* Normalize[s]: the address, in lower case and stripped
    Password,
    Call        \* the operations under way

VARIABLES
    account,    \* account[u]: exists, email, password, is_active, deleted_at (as a flag)
    call        \* call[c]: what operation c is doing and what it has read

avars == <<account, call>>

NoOne == "nobody"

Absent == [exists |-> FALSE, email |-> NoOne, password |-> NoOne,
           active |-> FALSE, deleted |-> FALSE]
NewCall == [op |-> "none", user |-> NoOne, given |-> NoOne, at |-> "start", read |-> Absent,
            answer |-> "none", replaced |-> NoOne, overtaken |-> FALSE]

AInit ==
    /\ account \in [User -> {Absent} \cup
                       [exists : {TRUE}, email : {Normalize[s] : s \in Spelling},
                        password : Password, active : {TRUE}, deleted : {FALSE}]]
    /\ \A u, v \in User : account[u].exists /\ account[v].exists
                            /\ account[u].email = account[v].email => u = v
    /\ call = [c \in Call |-> NewCall]

Ends(c, answer) == call' = [call EXCEPT ![c].at = "end", ![c].answer = answer]

\* The unique index on users.email, which deleted rows keep their entry in.
Taken(u, email) == \E v \in User \ {u} : account[v].exists /\ account[v].email = email

\* create_user: an IntegrityError when the address is taken.
CreateUser(c, u, s, p) ==
    /\ call[c].at = "start"
    /\ ~account[u].exists
    /\ IF Taken(u, Normalize[s]) THEN Ends(c, "error") /\ UNCHANGED account
       ELSE /\ account' = [account EXCEPT ![u] = [exists |-> TRUE, email |-> Normalize[s],
                                password |-> p, active |-> TRUE, deleted |-> FALSE]]
            /\ Ends(c, "done")

\* get_user_by_id, whether the row is soft-deleted or not.
LoadUser(c, op, u, given) ==
    /\ call[c].at = "start"
    /\ call' = [call EXCEPT ![c] =
                  [NewCall EXCEPT !.op = op, !.user = u, !.given = given,
                     !.read = account[u],
                     !.at = IF account[u].exists THEN "loaded" ELSE "end",
                     !.answer = IF account[u].exists THEN "none" ELSE "missing"]]
    /\ UNCHANGED account

\* A commit that replaces the password of u: others have read the old one.
SetsPassword(c, u, p, answer) ==
    call' = [d \in Call |->
               IF d = c THEN [call[c] EXCEPT !.at = "end", !.answer = answer,
                                             !.replaced = account[u].password]
               ELSE IF call[d].at # "end" /\ call[d].user = u
                    THEN [call[d] EXCEPT !.overtaken = TRUE] ELSE call[d]]

\* update_user: an address that is not the loaded one, a password, or both.
UpdateUser(c, emails, passwords) ==
    LET u == call[c].user
        New(e) == e # call[c].read.email
    IN /\ call[c].at = "loaded" /\ call[c].op = "update"
       /\ \/ \E e \in emails : New(e) /\ Taken(u, e) /\ Ends(c, "error") /\ UNCHANGED account
          \/ /\ \E e \in emails \cup {call[c].read.email}, p \in passwords \cup {NoOne} :
                  /\ ~(New(e) /\ Taken(u, e))
                  /\ account' = [account EXCEPT
                        ![u].email = IF New(e) THEN e ELSE @,
                        ![u].password = IF p = NoOne THEN @ ELSE p]
                  /\ IF p = NoOne THEN Ends(c, "done") ELSE SetsPassword(c, u, p, "done")

\* delete_user: soft_delete writes is_active when the loaded row was active.
DeleteUser(c) ==
    /\ call[c].at = "loaded" /\ call[c].op = "delete"
    /\ account' = [account EXCEPT ![call[c].user].deleted = TRUE,
                     ![call[c].user].active = IF call[c].read.active THEN FALSE ELSE @]
    /\ Ends(c, "done")

\* authenticate_user reads the row of the address once.
SignIn(c, s, p) ==
    LET of == {u \in User : account[u].exists /\ account[u].email = Normalize[s]}
    IN /\ call[c].at = "start"
       /\ Ends(c, IF \E u \in of : account[u].active /\ account[u].password = p
                  THEN "done" ELSE "refused")
       /\ UNCHANGED account

AnyPassword(c) == TRUE

\* change_password verifies the old password against the row it has loaded.
Verified(c) == call[c].given = call[c].read.password

ChangePassword(c, p) ==
    /\ call[c].at = "loaded" /\ call[c].op = "change"
    /\ IF ~Verified(c) THEN Ends(c, "refused") /\ UNCHANGED account
       ELSE /\ account' = [account EXCEPT ![call[c].user].password = p]
            /\ SetsPassword(c, call[c].user, p, "done")

ANext ==
    \/ \E c \in Call, u \in User, s \in Spelling, p \in Password : CreateUser(c, u, s, p)
    \/ \E c \in Call, u \in User, op \in {"update", "delete"} : LoadUser(c, op, u, NoOne)
    \/ \E c \in Call, u \in User, p \in Password : LoadUser(c, "change", u, p)
    \/ \E c \in Call : \/ UpdateUser(c, {Normalize[s] : s \in Spelling}, Password)
                       \/ DeleteUser(c)
    \/ \E c \in Call, s \in Spelling, p \in Password : SignIn(c, s, p)
    \/ \E c \in Call, p \in Password : ChangePassword(c, p)

ASpec == AInit /\ [][ANext]_avars

----------------------------------------------------------------------------
(* A change of password that is answered with success has replaced the     *)
(* password that was given as the old one, unless another operation set a  *)
(* password of the account after it was verified; and no deleted account   *)
(* is active, whatever overlaps with its deletion.                         *)
PasswordHandOver ==
    /\ \A c \in Call : call[c].op = "change" /\ call[c].answer = "done" =>
          call[c].replaced = call[c].given \/ call[c].overtaken
    /\ \A u \in User : account[u].deleted => ~account[u].active
=============================================================================
