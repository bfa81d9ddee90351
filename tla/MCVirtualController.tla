------------------------ MODULE MCVirtualController ------------------------
(* Instances of VirtualController for TLC: pairs of elements that share keys. *)
EXTENDS VirtualController

Conf(items, hold) == [items |-> items, hold |-> hold, shooting |-> FALSE, place |-> 0]

ElementKinds ==
    [b1 |-> "button", b2 |-> "button", radial |-> "radial", stick |-> "stick",
     aim |-> "aim", display |-> "display", blank |-> "blank"]

ElementChoices ==
    [button |-> {Conf(<<<<"shift", "w">>>>, FALSE), Conf(<<<<"w">>>>, FALSE)},
     radial |-> {Conf(<<<<"w">>, <<"shift", "w">>>>, FALSE),
                 Conf(<<<<"w">>, <<"shift", "w">>, <<"w">>>>, TRUE)},
     stick |-> {Conf(<<<<"a">>, <<"d">>, <<"w">>, <<"w">>>>, FALSE)},
     aim |-> {Conf(<<<<>>>>, FALSE), Conf(<<<<"w">>>>, FALSE)},
     display |-> {Conf(<<<<"f1">>, <<"f2">>>>, FALSE)},
     blank |-> {Conf(<<<<"shift">>>>, FALSE)}]

World(ids, profs, fingers, moves) ==
    [ids |-> ids, profiles |-> profs, fingers |-> fingers, moves |-> moves]

ElementWorlds ==
    {World({"b1", "b2"}, {"p1"}, 2, FALSE), World({"b1", "radial"}, {"p1"}, 2, FALSE),
     World({"stick", "aim"}, {"p1"}, 2, FALSE), World({"b1", "display"}, {"p1"}, 2, FALSE),
     World({"b1", "blank"}, {"p1"}, 2, FALSE), World({"blank"}, {"p1", "p2"}, 1, TRUE)}
=============================================================================
