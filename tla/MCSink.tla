-------------------------------- MODULE MCSink --------------------------------
(* Statuses of every class for Sink. *)
EXTENDS Sink

StatusOfEachClass == {200, 308, 401, 404, 429, 503}
===============================================================================
