SPECIFICATION TimerSpec
CONSTANTS
    Nobody = Nobody
    Owner = Owner
    TimerThread = TimerThread
    MaxPosts = 2
PROPERTY CancelCancels
