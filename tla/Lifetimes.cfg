SPECIFICATION Spec
CONSTANTS
    RECV_TURNS = 2
    STOP_TURNS = 6
    Managers = {m1, m2}
    App = app
    max_uri_handlers = 2
    UIs = {u1, u2}
    Widgets = {w1, w2, w3, w4}
    None = none
    Tasks = {app, net}
    Callbacks = {c1, c2, c3}
    EarlyTasks = {app}
    MaxDepth = 3
CHECK_DEADLOCK FALSE
INVARIANTS UsersOutlived RoutesMatchManagers MembersMatchScreen CallbackLifetime NotReentered
PROPERTIES DestructorEnds
