----------------------------- MODULE MCDataPath -----------------------------
(* Transfers between two modules of various kinds, with addresses of one   *)
(* byte.                                                                   *)
EXTENDS MessageTransfer, TLC

CONSTANTS a, b, t1, t2, g1

MCGuestBlocks == (a :> 0) @@ (b :> 1)

MCBase == (a :> 16) @@ (b :> 68)

Kind(x, y) == (a :> x) @@ (b :> y)

AllKinds  == {Kind("shared", "ordinary"), Kind("ordinary", "shared"),
              Kind("translated64", "translated32"),
              Kind("translated32", "translated64"), Kind("translated64", "native")}
WamrKinds == {Kind("native", "wamr")}

Numbered(text, n, addr) ==
  [form |-> "numeric", text |-> text, copy_size |-> n, src_addr |-> addr]
Malformed(form) == [form |-> form, text |-> 1, copy_size |-> 0, src_addr |-> 0]

Text(src, dst, ptr, locations) ==
  [src |-> src, dst |-> dst, ptr |-> ptr, len |-> 5, terminated |-> TRUE,
   locations |-> locations]

MCMessages ==
  { Text(a, b, 16, <<Numbered(3, 9, 2), Numbered(4, 6, 0)>>),
    Text(b, a, 68, <<Numbered(3, 4, 68)>>),
    Text(a, a, 17, <<Numbered(1, 5, 4), Malformed("wordy")>>),
    Text(Host, b, 122, <<Numbered(4, 4, 122), Numbered(3, 0, 0)>>),
    Text(Host, b, 122, <<Numbered(4, 250, 4)>>),
    Text(Host, b, 122, <<Numbered(4, 2, 130)>>),
    Text(a, b, 16, <<Numbered(4, 3, 128 + 70)>>),
    Text(a, b, 122, <<Malformed("no address")>>),
    [Text(a, b, 16, <<>>) EXCEPT !.terminated = FALSE],
    [Text(Host, b, 122, <<Numbered(1, 0, 0)>>) EXCEPT !.len = 251],
    [Text(Host, b, 122, <<>>) EXCEPT !.len = 253],
    [Text(Host, b, 122, <<>>) EXCEPT !.len = SizeMax] }

(* What the messages point to in their source memory is kept there.        *)
ASSUME SourcesKept == SourcesStatic

(* The made-up block address is one no memory has.                         *)
ASSUME MadeUpOutside == BadBlocksOutside
=============================================================================
