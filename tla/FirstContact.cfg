\* One link shared by the user who made it and one who adds it, overlapping
\* add_contact calls, a removal on either side and a restart.
CONSTANTS
    a = a  b = b  k1 = k1
    Users <- UsersAB
    Hosts <- HostsB
    Invites <- Link
    Circs = {1, 2}
    NoUser = NoUser
    NoInvite = NoInvite
    MaxRemoves = 1
    MaxRestarts = 1
    ReAdd = TRUE
SPECIFICATION FairSpec
INVARIANTS SingleUse AckMeansJoined
PROPERTIES LostAckHeals OldRowEnds
CHECK_DEADLOCK FALSE
