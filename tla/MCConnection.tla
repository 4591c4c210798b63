---------------------------- MODULE MCConnection ----------------------------
(* Connection with the sessions of Connection.cfg. *)
EXTENDS Connection

Ask(opcode, length) == [opcode |-> opcode, length |-> length]

(* Every kind of request occurs, with and without a body.  A session has    *)
(* two requests, or one and another record of the channel.                 *)
MCSessions ==
    { <<Ask("Update", 2), Ask("Fetch", 0)>>,
      <<Ask("Query", 1), Ask("ShortTransact", 1)>>,
      <<Ask("DownloadExtern", 0), Ask("Shutdown", 0)>>,
      <<Ask("Apply", 1)>>, <<Ask("Fetch", 0)>>, <<Ask("Query", 1)>> }
=============================================================================
