\* Finding: a rejected duplicate unregisters the session of the other one.
CONSTANTS
    a1 = a1
    a2 = a2
    console = console
    Zero = Zero
    NoAgent = NoAgent
    Agents = {a1, a2}
    Sessions = {console}
    SessionOf <- AllShareASession
    Oversized = {}
SPECIFICATION Spec
CHECK_DEADLOCK FALSE
INVARIANT ConnectedIsRegistered
