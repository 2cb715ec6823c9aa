--------------------------- MODULE MCConfiguration ---------------------------
EXTENDS Configuration

CONSTANTS i1, i2, g1, u, v

\* The name of the second item has a capital.
Items     == <<"x", "Y">>
Defaults  == [n \in ToSet(Items) |-> u]
LowerCase == [n \in ToSet(Items) |-> IF n = "Y" THEN "y" ELSE n]

\* x and the groups take two values, Y and the filters one.
ItemMaxima == [n \in ToSet(Items) |-> IF n = "x" THEN 2 ELSE 1]
ListMaxima == [n \in Lists |-> IF n = "group" THEN 2 ELSE 1]

\* Very little, as much as there is room for, and too much of everything.
Bodies ==
  {<<Line("interval", 1), Line("Y", Blank)>>,
   <<Line("newconf", i1), Line("interval", 1), Line("x", u), Line("x", v), Line("Y", v),
     Line("group", v), Line("group", u), Line("filter", u)>>,
   <<Line("newconf", i1), Line("newconf", i2), Line("interval", 2), Line("interval", 0),
     Line("x", v), Line("x", u), Line("z", u), Line("x", v), Line("Y", u), Line("Y", v),
     Line("group", Blank), Line("filter", Blank), Line("filter", v), Line("filter", u)>>}
=============================================================================
