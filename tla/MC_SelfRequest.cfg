CONSTANTS
    n1 = n1
    a1 = a1
    a2 = a2
    o1 = o1
    o2 = o2
    Main = Main
    Names <- MCNames
    Actors <- MCActors
    Ops <- MCOps
    Owners <- MCOwnersActor
    Replies <- MCReplies
SPECIFICATION Spec
PROPERTIES
    NoHang
