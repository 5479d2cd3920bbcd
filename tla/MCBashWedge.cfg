CHECK_DEADLOCK FALSE
CONSTANTS
    Process = {sh, p1, p2}
    Shell = sh
SPECIFICATION Spec
PROPERTIES
    NoWedge
