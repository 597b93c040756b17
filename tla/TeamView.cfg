\* Two teams to select between, one of them to be created, one person to add to
\* either, one day to post, and three fetches in flight, so that two of a kind
\* can change order.
CONSTANTS
    Days = {mon}
    Teams = {alpha, beta}
    OldTeams = {alpha}
    People = {bob}
    NoTeam = NoTeam
    Slots = {s1}
    MaxFetches = 3
    MaxFaults = 1
SPECIFICATION Spec
INVARIANTS ShownIsSelected AckedShown
