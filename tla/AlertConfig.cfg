SPECIFICATION ConfiguredSpec
CONSTANTS
    tpl = tpl
    own = own
    t1 = t1
    t2 = t2
    c1 = c1
    c2 = c2
    NoChannel = NoChannel
    Alerts = {tpl, own}
    Templates = {tpl}
    Teams = {t1, t2}
    AlertTeam <- TheAlertTeam
    Channels = {c1, c2}
    ChannelTeam <- TheChannelTeam
    ChannelKind <- TheChannelKind
    Links = {}
    MaxEdits = 5
    Rule <- TheRule
    \* In units of 2.5 minutes: every 5 minutes, up to 5 late, against 10.
    Every = 2
    Delay = 2
    MaxAge = 4
    MaxOpen = 3
INVARIANTS NoDanglingChannel EdgesPaired
PROPERTIES TeamsAreIndependent
\* The handlers only run when they are called.
CHECK_DEADLOCK FALSE
