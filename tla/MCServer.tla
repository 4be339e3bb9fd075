------------------------------ MODULE MCServer ------------------------------
(***************************************************************************)
(* Server on a small instance: two connections, so that one can start a    *)
(* job while another is refused or drains, two job threads, so that one    *)
(* lingers while the next starts, and jobs of one or two packages.         *)
(***************************************************************************)
EXTENDS Server

=============================================================================
