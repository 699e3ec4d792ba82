--------------------------- MODULE CertifiedFlash ---------------------------
(***************************************************************************)
(* What the firmware programmer promises, without descriptor pages, RAM    *)
(* copies, transfers or steps of a call: an application flash with at most *)
(* one certificate. A certificate is issued only for an image the flash    *)
(* holds, may be revoked at any time, and as long as it stands the flash   *)
(* does not change. A reset is not visible at all: both are persistent.    *)
(***************************************************************************)
EXTENDS Integers

CONSTANTS Images, BlocksOf, TailUnread, TailRepeats,
          MinimalBlock, EndBlock, Blank, Garbage

VARIABLES
  content,     \* the half pages of the application flash
  certified    \* the certificate, a set of at most one

Blocks == MinimalBlock .. EndBlock - 1
Cells  == (Images \X Nat) \union {Blank, Garbage}

\* The flash holds image c.img at c.entry, as far as its sha256 is calculated.
Holds(c) ==
  /\ \A k \in 0 .. BlocksOf[c.img] - 1 :
       \/ content[c.entry + k] = <<c.img, k>>
       \/ c.img \in TailUnread /\ k = BlocksOf[c.img] - 1
  /\ c.img \in TailUnread => c.img \in TailRepeats

Init == content = [b \in Blocks |-> Blank] /\ certified = {}

Revoke == certified' = {} /\ UNCHANGED content

Modify ==
  /\ certified = {}
  /\ content' \in [Blocks -> Cells]
  /\ UNCHANGED certified

Certify(c) ==
  /\ certified = {}
  /\ Holds(c)
  /\ certified' = {c}
  /\ UNCHANGED content

Next ==
  \/ Revoke
  \/ Modify
  \/ \E i \in Images, e \in Blocks : Certify([img |-> i, entry |-> e])

Spec == Init /\ [][Next]_<<content, certified>>
=============================================================================
