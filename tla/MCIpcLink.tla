----------------------------- MODULE MCIpcLink -----------------------------
(***************************************************************************)
(* A small instance of IpcLink: app_task and cellular_task send up to three*)
(* frames, one of them with a start byte inside, one a call of the peer.   *)
(***************************************************************************)
EXTENDS IpcLink, IpcCrc

MCTraffics ==
    { [app |-> << ipc_p1_event_app_pkt(<<7>>), ipc_p1_event_app_pkt(<<9>>) >>,
       cell |-> << ipc_p1_event_voice_call_response(1) >>],
      [app |-> << ipc_p1_event_app_pkt(<<170, 0, 0>>) >>,
       cell |-> << ipc_p1_event_voice_call_response(2) >>],
      [app |-> <<>>, cell |-> << ipc_p1_event_voice_call(48, 49) >>] }

\* One bit, or all of them, or a byte that looks like a start byte.
MCGarbled(b) == { b ^^ 1, b ^^ 255, 170 } \ {b}

\* The checksum accepted on the line is CRC-16/MODBUS of the payload.
ChecksumIsModbus == got # <<>> => crc = BitSerial(got)

=============================================================================
