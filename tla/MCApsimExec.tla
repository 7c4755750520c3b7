------------------------------ MODULE MCApsimExec ------------------------------
(* One cell is half a boundary: a space of five boundaries, and one file for
   every form the loader knows, every way it refuses one, and scripts. *)
EXTENDS ApsimExec

MCFiles == {"v1", "flat", "pure", "split", "ovl", "ovsep", "bad", "sh", "nest"}
WideFiles == {"pure", "wide"}

None == [s \in Segments |-> 0]
File(magic, text, data, bss, max, s1, s2) ==
  [magic |-> magic, words |-> 8, interp |-> "pure", text |-> text, data |-> data, bss |-> bss,
   ovhdr |-> TRUE, max |-> max, siz |-> <<s1, s2>>,
   has |-> [None EXCEPT ![FILE] = text + data, ![TEXT] = text, ![DATA] = data,
                        ![1] = s1, ![2] = s2]]

MCAout ==
  [f \in Files |->
    CASE f = "v1" -> File("0405", 1, 0, 0, 0, 0, 0)
      [] f = "flat" -> File("0407", 1, 0, 0, 0, 0, 0)
      [] f = "pure" -> File("0410", 1, 1, 1, 0, 0, 0)
      [] f = "split" -> File("0411", 2, 1, 1, 0, 0, 0)
      [] f = "ovl" -> File("0430", 3, 1, 1, 2, 2, 1)
      [] f = "ovsep" -> File("0431", 1, 1, 0, 2, 1, 2)
      [] f = "wide" -> File("0430", 1, 1, 0, 1, 1, 3)
      [] f = "bad" -> File("0431", 8, 0, 0, 2, 1, 3)
      [] f = "sh" -> [File("script", 0, 0, 0, 0, 0, 0) EXCEPT !.interp = "ovl", !.words = 3]
      [] OTHER -> [File("script", 0, 0, 0, 0, 0, 0) EXCEPT !.interp = "sh"]]
=============================================================================
