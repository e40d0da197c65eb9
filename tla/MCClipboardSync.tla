--------------------------- MODULE MCClipboardSync ---------------------------
(* Instances of ClipboardSync. *)
EXTENDS ClipboardSync

CONSTANTS a, b, third, text1, text2, image, files

MCKind == [x \in Items |->
    CASE x \in {text1, text2} -> "text" [] x = image -> "image" [] x = files -> "files"]
===============================================================================
