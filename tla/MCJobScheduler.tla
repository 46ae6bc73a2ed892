--------------------------- MODULE MCJobScheduler ---------------------------
(* A small instance of JobScheduler.                                       *)
EXTENDS JobScheduler

Patch(switch, kind, at) == [switch |-> switch, kind |-> kind, at |-> at]

\* rename, pause, resume, a new instant, a new schedule
SomePatches == {Patch("keep", "keep", Keep), Patch("off", "keep", Keep), Patch("on", "keep", Keep),
                Patch("on", Once, 0), Patch("keep", "interval", Keep)}
=============================================================================
