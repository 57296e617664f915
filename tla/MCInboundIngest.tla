--------------------------- MODULE MCInboundIngest ---------------------------
(***************************************************************************)
(* Small instances of InboundIngest: the events HH-BE pushes.              *)
(***************************************************************************)
EXTENDS InboundIngest, TLC

\* otp_verified of one user, and a job published by a user nobody has seen.
VerifiedAndStray ==
    "verified" :> [email |-> "e1", uid |-> 1, kind |-> "L3", named |-> TRUE,
                   domain |-> "d1", jobs |-> 1]
 @@ "stray" :> [email |-> None, uid |-> 2, kind |-> "L4", named |-> FALSE,
                domain |-> None, jobs |-> 1]

\* One user types an email, verifies it and publishes two jobs; the fourth
\* event identifies nobody.
Funnel ==
    "partial" :> [email |-> "e1", uid |-> None, kind |-> "touch", named |-> FALSE,
                  domain |-> None, jobs |-> 1]
 @@ "verified" :> [email |-> "e1", uid |-> 1, kind |-> "L3", named |-> TRUE,
                   domain |-> None, jobs |-> 1]
 @@ "published" :> [email |-> "e1", uid |-> 1, kind |-> "L4", named |-> TRUE,
                    domain |-> None, jobs |-> 2]
 @@ "blank" :> [email |-> None, uid |-> None, kind |-> "touch", named |-> FALSE,
                domain |-> None, jobs |-> 1]

\* Two colleagues of one company type their emails.
Colleagues ==
    "left" :> [email |-> "e1", uid |-> None, kind |-> "touch", named |-> TRUE,
               domain |-> "d1", jobs |-> 1]
 @@ "right" :> [email |-> "e2", uid |-> None, kind |-> "touch", named |-> TRUE,
                domain |-> "d1", jobs |-> 1]

Symmetry == Permutations(Req)
=============================================================================
