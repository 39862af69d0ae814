CONSTANTS
    g1 = g1  g2 = g2  o1 = o1
SPECIFICATION GroupsSpec
PROPERTIES GroupSound
CHECK_DEADLOCK FALSE
