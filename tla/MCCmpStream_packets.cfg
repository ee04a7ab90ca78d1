SPECIFICATION FairSpec
CONSTANTS
    bind = bind
    authentication = authentication
    unregistered = unregistered
    Enquire = enquire
    Nack = nack
    Command = {enquire, bind, authentication, unregistered}
    Handled <- MCHandled
    Offers <- MCOffers
    MaxRequest <- MCMaxRequest
INVARIANT TypeOK
INVARIANT GivenAsSent
INVARIANT EndHasCause
PROPERTY EnquiryIsAnswered
CHECK_DEADLOCK FALSE
