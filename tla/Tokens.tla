------------------------------- MODULE Tokens -------------------------------
(***************************************************************************)
(* encode_token and decode_token of the relays: the operation and the      *)
(* buffer index packed into the 64-bit user_data of a ring entry.  It is   *)
(* all that the loop gets back in a completion.                            *)
(***************************************************************************)
EXTENDS Naturals

\* 1 << 16: indices are u16.
IndexRange == 65536

OpBits == [recv |-> 0, send |-> 1, send_notif |-> 2]

EncodeToken(op, buf_idx) == OpBits[op] * IndexRange + buf_idx

\* token >> 16 and token & 0xFFFF; an unknown operation counts as a send.
DecodeOp(token) ==
  CASE token \div IndexRange = 0 -> "recv"
    [] token \div IndexRange = 2 -> "send_notif"
    [] OTHER -> "send"

DecodeIdx(token) == token % IndexRange

=============================================================================
