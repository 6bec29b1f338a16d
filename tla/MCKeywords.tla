----------------------------- MODULE MCKeywords -----------------------------
(* Three terms that are related to each other, two of them share a fragment. *)
EXTENDS Keywords, TLC

AllTerms == {"bowl", "cup", "mat"}
Fragments == [t \in AllTerms |-> IF t = "mat" THEN {"ma"} ELSE {"dish"}]
Offers == [t \in AllTerms |-> AllTerms \ {t}]
Searches == [t \in AllTerms |-> IF t = "bowl" THEN 900 ELSE IF t = "cup" THEN 300 ELSE 100]
Item(top, second, matches) == [top |-> top, second |-> second, matches |-> matches]
Shelves == [t \in AllTerms |->
  IF t = "bowl" THEN {<<Item("home", "dish", FALSE), Item("home", "pet", TRUE)>>}
  ELSE {None, <<>>, <<Item(None, "dish", FALSE), Item("home", "dish", FALSE)>>,
        <<Item("book", "pet", FALSE)>>}]
Mapped == [c \in {"home"} |-> "rest"]
Outcomes == {{}, {"shop"}, {"shop", "ads"}}
Symmetric == Permutations(Requests)

=============================================================================
