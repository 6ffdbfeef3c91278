SPECIFICATION FairDeviceSpec
CONSTANTS
    tablet = tablet
    phone = phone
    h1 = h1
    h2 = h2
    Tablet = tablet
    Strangers = {phone}
    Hosts = {h1, h2}
    Home = h1
    HomeReserved = TRUE
    SerialKnown = TRUE
    StrangerPorts = {"fixed"}
    MaxFaults = 1
    Nowhere = Nowhere
PROPERTIES FoundAfterReboot
