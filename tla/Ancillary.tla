----------------------------- MODULE Ancillary -----------------------------
(***************************************************************************)
(* Control messages (src/src/conn/ancillary.rs): a buffer of AncCap bytes  *)
(* that holds what goes along with one sendmsg or came with one recvmsg,   *)
(* always one SCM_RIGHTS message with an array of file descriptors.        *)
(***************************************************************************)
EXTENDS Naturals, Sequences

CONSTANT AncCap   \* size of the buffer: 256

ASSUME AncillaryAssumption == AncCap \in Nat

FdSize == 4
\* CMSG_LEN and CMSG_SPACE, with a header of 16 bytes and data aligned to 8
CmsgLen(bytes) == 16 + bytes
CmsgSpace(bytes) == 16 + ((bytes + 7) \div 8) * 8

\* add_fds, to a buffer without control messages: is there room for n fds?
AddFds(n) == CmsgSpace(n * FdSize) <= AncCap

\* recvmsg: the kernel passes on the fds that fit and sets MSG_CTRUNC if there
\* are more; messages finds them by the length that the header gives.
ReceivedFds(fds) ==
  LET room == IF AncCap < CmsgLen(0) THEN 0 ELSE (AncCap - CmsgLen(0)) \div FdSize
      cmsg_len == CmsgLen(FdSize * (IF Len(fds) < room THEN Len(fds) ELSE room))
  IN SubSeq(fds, 1, (cmsg_len - CmsgLen(0)) \div FdSize)
============================================================================
