------------------------ MODULE ServiceRefinement ------------------------
(* The service implements the life of requests it promises its clients. *)
EXTENDS Service

\* The records a client can ask for are the scheduler's own.
R == INSTANCE Requests WITH
       status <- board.status, stopping <- board.stopping, Nobody <- NoOne

\* Every critical section of scheduler and handlers is a step of Requests, or
\* changes nothing a client can see; this needs a disk that takes the packets.
ImplementsRequests == R!Spec
==========================================================================
