------------------------------ MODULE MCWeChat ------------------------------
(* The messages in the account: an attachment of one user, a text of another. *)
EXTENDS WeChat

MCInbox == << [from |-> "ann", kind |-> "media"], [from |-> "bob", kind |-> "text"] >>
=============================================================================
