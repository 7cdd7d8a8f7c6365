----------------------------- MODULE MCRequestLog -----------------------------
(* Small instances of RequestLog for TLC. *)
EXTENDS RequestLog, TLC

CONSTANTS sync, stream, u, in, out

MCUser == sync :> u @@ stream :> u

None == [f \in {} |-> 0]
Line(top, message) == [fails |-> FALSE, usage |-> top, message |-> message]

\* No event or no usage; message_start; message_delta; a null; an event with both
\* usages; an event on which get() raises.
MCLines ==
  { Line(None, None), Line(None, in :> 1 @@ out :> 0), Line(out :> 2, None),
    Line(in :> Null, None), Line(in :> 2, out :> 1),
    [fails |-> TRUE, usage |-> None, message |-> None] }

MCSymmetry == Permutations(Accounts)
=============================================================================
