----------------------------- MODULE LtkExtract -----------------------------
(***************************************************************************)
(* What the connection of the LLRP toolkit and its binary codec share: the *)
(* size of their buffers, integers of several bytes and CFrameExtract,     *)
(* which tells from the first bytes of a frame how long it is              *)
(* (ltkcpp_frameextract.cpp).                                              *)
(***************************************************************************)
EXTENDS Integers, Sequences, SequencesExt, FiniteSetsExt

CONSTANT BufSize                        \* bytes of a frame's buffer
ASSUME BufSizeAssumption == BufSize \in Nat

OK == "OK"
None == "none"

Byte == 0 .. 255

\* The integer of some bytes, the most significant one first.
ValueOf(bs, signed) ==
    FoldLeft(LAMBDA acc, b : acc * 256 + b, IF signed /\ bs[1] >= 128 THEN -1 ELSE 0, bs)

\* m_MessageLength; the bytes before it are the version and the type.
FrameLength(buf) == ValueOf(SubSeq(buf, 3, 6), FALSE)

\* CFrameExtract: how many bytes are needed, at once or until the end.
FrameExtract(buf) ==
    CASE Len(buf) < 10 -> [status |-> "NEED_MORE", needed |-> 10 - Len(buf)]
      [] Len(buf) >= 10 /\ FrameLength(buf) < 10 -> [status |-> "FRAME_ERROR", needed |-> 0]
      [] Len(buf) >= 10 /\ FrameLength(buf) >= 10 /\ Len(buf) >= FrameLength(buf) ->
            [status |-> "READY", needed |-> 0]
      [] OTHER -> [status |-> "NEED_MORE", needed |-> FrameLength(buf) - Len(buf)]
=============================================================================
