---------------------------- MODULE MCAttachment ----------------------------
(***************************************************************************)
(* Small instances of Attachment.                                          *)
(***************************************************************************)
EXTENDS Attachment, TLC

Symmetry ==
  Permutations(Call) \cup Permutations(Node) \cup Permutations(AttachmentId)
=============================================================================
