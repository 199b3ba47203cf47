SPECIFICATION Spec
CONSTANTS
    StatusThread = {s1, s2}
    Main = Main
    Rpc = Rpc
    NoThread = NoThread
    NoData = NoData
    MaxTransceive = 1
PROPERTIES
    NoSendWhileUnavailable
