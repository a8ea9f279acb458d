SPECIFICATION Spec
CONSTANTS
    m1 = m1
    m2 = m2
    zero = zero
    big = big
    sender = sender
    reader = reader
    Msg = {m1, m2}
    Zero = zero
    TooBig = {big}
    Senders = {sender}
    Receivers = {reader}
    Resetters = {reader}
    MaxMsgs = 2
    Spurious = FALSE
INVARIANTS
    TypeOK
PROPERTIES
    FifoSpec
