------------------------- MODULE MC_DLiteMetaLayout -------------------------
(* A 64-bit build: 8-byte pointers and size_t, 4-byte int, and the header  *)
(* char uuid[37]; const char *uri; DLiteMeta *meta puts meta at byte 48.   *)
EXTENDS DLiteMetaLayoutProofs

(* Property kinds whose sizes and alignments differ: a byte, a 4-byte int, *)
(* an 8-byte float, a 3-byte fixed string, a string pointer and an array.  *)
MCPropKinds ==
    { [type |-> "bool",      size |-> 1, ndims |-> 0],
      [type |-> "int",       size |-> 4, ndims |-> 0],
      [type |-> "float",     size |-> 8, ndims |-> 0],
      [type |-> "string",    size |-> 3, ndims |-> 0],
      [type |-> "stringptr", size |-> 8, ndims |-> 0],
      [type |-> "int",       size |-> 4, ndims |-> 1] }

(* The widths above are natural, the hypothesis of LayoutInBoundsProved.   *)
ASSUME MCWidths == NaturalWidths
=============================================================================
