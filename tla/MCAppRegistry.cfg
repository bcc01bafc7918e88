SPECIFICATION Spec
CONSTANTS
  Apps = {sub}
  Groups = {g1, g2}
  Ports = {p1, p2}
  MaxTasks = 3
  MaxScale = 2
  MaxGroup = 3
CHECK_DEADLOCK FALSE
INVARIANTS TypeOK ListMatchesMap GroupsDisjoint LostMembersAreDead MembersAreListed
SYMMETRY Symmetry
