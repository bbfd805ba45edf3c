----------------------------- MODULE MCConnect -----------------------------
(* Connect for TLC: 7-bit user ids, up to the first one at which the       *)
(* multiplication by ten wraps around, as 1 410 065 408 does with 32 bits; *)
(* session addresses with every key, missing, doubled or malformed.        *)
EXTENDS Connect

MCUids == {0, 7, 9, 10, 42, 99, 100, 103}

\* Lines that fit, one that is not UTF-8, one whose line ending the buffer cuts
\* and two that are too long, of which one has an OK where the buffer ends.
MCFiller == {<<>>, <<"raw">>, <<"...", "...">>, <<"...", "...", "...", "...">>, <<"...", "...", "OK">>}

ASSUME MCUidsFit == NoWrap

KV(key, val, equals) == [key |-> key, val |-> val, equals |-> equals]

MCPairs == {KV("abstract", "good", 1), KV("abstract", "long", 1), KV("path", "good", 1),
            KV("path", "gone", 1), KV("path", "good", 2), KV("host", "good", 1),
            KV("host", "raw", 1), KV("port", "good", 1), KV("guid", "good", 1)}

MCSessionVars == [family : {"unix", "tcp", "other", "none"}, pairs : BoundedSeq(MCPairs, 2)]
============================================================================
