------------------------------- MODULE Title --------------------------------
(***************************************************************************)
(* What the homes of HomeGentic promise their owners, whatever canister    *)
(* keeps them: a home has at most one owner; it passes from one to another *)
(* only when its owner has offered it and somebody else takes it; and      *)
(* nobody has access to it but whom its present owner let in.              *)
(***************************************************************************)
CONSTANTS Users, Homes, Nobody

ASSUME NobodyIsNoUser == Nobody \notin Users

VARIABLES
  title,   \* home: its owner, or Nobody
  offered, \* home: the owner who offers it, or Nobody
  access,  \* home: the users its owner has let in
  invited  \* home: whether an invitation to share it is open

titleVars == <<title, offered, access, invited>>

TitleInit ==
  /\ title = [h \in Homes |-> Nobody] /\ offered = [h \in Homes |-> Nobody]
  /\ access = [h \in Homes |-> {}] /\ invited = [h \in Homes |-> FALSE]

Acquire(u, h) ==
  /\ title[h] = Nobody
  /\ title' = [title EXCEPT ![h] = u]
  /\ UNCHANGED <<offered, access, invited>>

Offer(h) ==
  /\ title[h] # Nobody
  /\ offered' = [offered EXCEPT ![h] = title[h]]
  /\ UNCHANGED <<title, access, invited>>

Withdraw(h) ==
  /\ offered' = [offered EXCEPT ![h] = Nobody]
  /\ UNCHANGED <<title, access, invited>>

(* The home changes hands: whom the old owner let in is out. *)
Convey(u, h) ==
  /\ offered[h] # Nobody /\ offered[h] = title[h] /\ u # title[h]
  /\ title' = [title EXCEPT ![h] = u]
  /\ offered' = [offered EXCEPT ![h] = Nobody]
  /\ access' = [access EXCEPT ![h] = {}]
  /\ invited' = [invited EXCEPT ![h] = FALSE]

Invite(h) ==
  /\ title[h] # Nobody
  /\ invited' = [invited EXCEPT ![h] = TRUE]
  /\ UNCHANGED <<title, offered, access>>

Uninvite(h) ==
  /\ invited' = [invited EXCEPT ![h] = FALSE]
  /\ UNCHANGED <<title, offered, access>>

(* Other invitations may stay open. *)
Join(u, h) ==
  /\ invited[h] /\ u # title[h]
  /\ access' = [access EXCEPT ![h] = @ \cup {u}]
  /\ \E more \in BOOLEAN : invited' = [invited EXCEPT ![h] = more]
  /\ UNCHANGED <<title, offered>>

Leave(u, h) ==
  /\ access' = [access EXCEPT ![h] = @ \ {u}]
  /\ UNCHANGED <<title, offered, invited>>

(* The account of u is deleted, and with it the homes u owns. *)
Erase(u) ==
  LET gone == {h \in Homes : title[h] = u}
  IN /\ title' = [h \in Homes |-> IF h \in gone THEN Nobody ELSE title[h]]
     /\ offered' = [h \in Homes |-> IF h \in gone THEN Nobody ELSE offered[h]]
     /\ access' = [h \in Homes |-> IF h \in gone THEN {} ELSE access[h] \ {u}]
     /\ invited' = [h \in Homes |-> invited[h] /\ h \notin gone]

TitleNext ==
  \/ \E u \in Users, h \in Homes :
       Acquire(u, h) \/ Convey(u, h) \/ Join(u, h) \/ Leave(u, h)
  \/ \E h \in Homes : Offer(h) \/ Withdraw(h) \/ Invite(h) \/ Uninvite(h)
  \/ \E u \in Users : Erase(u)

TitleSpec == TitleInit /\ [][TitleNext]_titleVars
=============================================================================
