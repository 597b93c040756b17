\* Two tabs of one browser, two jobs in flight, two accounts.
CONSTANTS
    Tabs = {left, right}
    Jobs = {j1, j2}
    Users = {ann, bob}
    NoUser = NoUser
    MaxSessions = 2
    MaxFaults = 1
SPECIFICATION Spec
INVARIANTS ShownUserOwnsToken AtRestInOrOut
PROPERTIES UpdatesOwnProfile
SYMMETRY Interchangeable
