-------------------------- MODULE MCConversation --------------------------
(* Small instances of Conversation: see the .cfg files. *)
EXTENDS Conversation

ImportOrNot == {0, 2}
NoImport == {0}
===========================================================================
